---- MODULE Spec2Model ----
(***************************************************************************)
(* Task suspension and timed wake-up of axtask: the per-CPU timer lists    *)
(* with their ticket check (timers.rs), the wait queue built on an event   *)
(* listener list (wait_queue.rs), the async timer wheel with the deadline  *)
(* race timeout_at (future/time.rs), and the Poller with the registry of   *)
(* IRQ wakers (future/poll.rs).                                            *)
(*                                                                         *)
(* Time is the discrete clock `now` (wall_time()); it may advance between  *)
(* any two steps.  Every step of a task is one critical section of the     *)
(* code (one lock acquisition, or one read of a shared value) together     *)
(* with the task-local work next to it.                                    *)
(***************************************************************************)
EXTENDS Integers, Sequences, FiniteSets, TLC

\* Bounds of the model.
NumTasks == 2
NumIrqs == 2
NumCpus == 2
MaxTime == 2
MaxDur == 1
MaxTicket == 3
MaxKey == 3
MaxWakeAlarms == 1
MaxInstalls == 2
MaxInvoked == 2
MaxRtKey == 2
MaxCallbacks == 2

\* usize::MAX, the count notify_all passes to Event::notify; it stands for a
\* number larger than any number of listeners.
usize_MAX == 2147483647

Tasks == 1..NumTasks
Cpus == 1..NumCpus
Times == 0..MaxTime
Durations == 0..MaxDur
\* The numbers TimerRuntime.key takes before the wheel is full.
Keys == 0 .. MaxKey - 1
Irqs == 1..NumIrqs

\* Option<Waker> / Option<TimeValue>: None.
NoTask == 0
NoDeadline == 0 - 1
NoDuration == 0 - 1
\* The largest value of the time type (Duration), at the model's integer width.
TimeValue_MAX == 2147483647
NoKey == [deadline |-> NoDeadline, key |-> 0 - 1]

VARIABLES
    now,              \* axhal::time::wall_time()
    \* ---- timers.rs ----
    TIMER_TICKET_ID,  \* static AtomicU64, next ticket
    timer_ticket,     \* task.timer_ticket(), per task
    TIMER_LIST,       \* per CPU: the pending TaskWakeupEvents with their deadlines
    alarm,            \* per CPU: the set_alarm_wakeup call in progress
    draining,         \* per CPU: check_events is in its drain loop
    lastFire,         \* the last TaskWakeupEvent::callback: what it saw and did
    TIMER_CALLBACKS,  \* static Vec<TimerCb>: the callbacks, in the order registered
    timeoutCall,      \* the task and the duration of the call of timeout the
                      \* last step made; NoTimeout when it made none
    wakeHeld,         \* of TIMER_RUNTIME and POLL_IRQ, those held around the calls of wakers the
                      \* last step made; {} when it called none or held none
    cbLog,            \* the callbacks check_events has called, in the order of the
                      \* calls, each with its argument, in the state that follows
                      \* its `for` loop; <<>> in any other state
    \* ---- wait_queue.rs: WaitQueue.event ----
    listeners,        \* the listener list, in registration order (one per task at most)
    lstate,           \* per task: "None", "Created", "Task" (waker stored), "Notified"
    notifyRet,        \* what notify_one or notify_all returned, in the state the call
                      \* returns to: "true", "false", "unit"; "none" in any other state
    cond,             \* the condition the waiters test
    \* ---- the tasks ----
    pc,               \* per task: position in its operation
    op,               \* per task: the operation it runs
    woken,            \* per task: its waker was called (block_on polls again)
    deadline,         \* per task: the `deadline` local of wait_timeout(_until)
    tdl,              \* per task: the deadline argument of its timeout_at, or NoDeadline
    tkey,             \* per task: the key of its TimerFuture, or NoKey
    sleepSt,          \* per task: its sleep_until future: "unstarted", "timer", "none"
    tres,             \* per task: what timeout_at returned: "Ok", "Elapsed", "none"
    ret,              \* per task: what the operation returned: "true", "false", "unit", "none"
    firstCond,        \* per task: what the first condition() of the call returned
    lastCond,         \* per task: what the last condition() of the call returned
    \* ---- history of the tasks ----
    opReady,          \* per task: the operation raced by timeout_at was polled Ready
    \* ---- future/time.rs ----
    TIMER_RUNTIME,    \* [key, wheel]: wheel is the set of entries
    \* ---- history ----
    superseded,       \* pending tickets followed by a whole later set_alarm_wakeup
                      \* of their task
    notifyWoke,       \* pending tickets whose task a notify woke after the alarm was
                      \* set
    \* ---- future/time.rs: what the wheel did ----
    wakeLog,          \* the entries TimerRuntime::wake has completed, in the order it
                      \* took them, each with the waker it called (NoTask: none), in
                      \* the state the pass returns to; <<>> in any other state
    stored,           \* per key number of a live entry: the waker the last
                      \* TimerFuture::poll handed to update_waker, or NoTask
    invoked,          \* per key number of a live entry: how often wake called a waker
                      \* taken from it, counted up to MaxInvoked
    cancelled,        \* the key numbers the drop of a TimerFuture has called cancel
                      \* with
    rtCall,           \* the method of TimerRuntime that was called on its own, with
                      \* its arguments and result, in the state the call returns
                      \* to; NoCall in any other state
    \* ---- future/poll.rs: Poller ----
    poller,           \* per task: its Poller and the poll call in progress or last
                      \* made: [pc, non_blocking, probes, registered, first, second,
                      \* result]
    ready,            \* what the probe f returns when called now
    pollSet,          \* the wakers registered with the Pollable
    \* ---- future/poll.rs: register_irq_waker ----
    POLL_IRQ,         \* the BTreeMap: a function from the IRQ numbers that have an
                      \* entry to their sets of wakers
    irqRegistered,    \* per IRQ number: how often axhal::irq::register was called
    irqHandler        \* per CPU: the irq_handler running there, between its removal
                      \* of the set and the set's wake

timerVars == <<TIMER_TICKET_ID, timer_ticket, TIMER_LIST, alarm, draining, lastFire,
               superseded>>
eventVars == <<listeners, lstate>>
taskVars == <<pc, op, deadline, tdl, tkey, sleepSt, tres, ret, firstCond, lastCond,
              opReady>>
vars == <<now, TIMER_TICKET_ID, timer_ticket, TIMER_LIST, alarm, draining, lastFire,
          listeners, lstate, notifyRet, cond, pc, op, woken, deadline, tdl, tkey,
          sleepSt, tres, ret, firstCond, lastCond, opReady, TIMER_RUNTIME,
          superseded, notifyWoke, wakeLog, stored, invoked, cancelled, rtCall,
          TIMER_CALLBACKS, cbLog, wakeHeld, timeoutCall,
          poller, ready, pollSet, POLL_IRQ, irqRegistered, irqHandler>>
wheelHist == <<stored, invoked, cancelled>>
pollVars == <<poller, ready, pollSet>>
irqVars == <<POLL_IRQ, irqRegistered, irqHandler>>
\* What the Poller and the IRQ registry leave alone but for the wakers' flags.
waitVars == <<now, timerVars, eventVars, cond, taskVars, TIMER_RUNTIME, notifyWoke,
              wheelHist>>

\* AxResult<T> as the probe returns it: two values, two errors, and WouldBlock.
WouldBlock == "Err(WouldBlock)"
OkResults == {"Ok(1)", "Ok(2)"}
ErrResults == {"Err(InvalidInput)", "Err(Interrupted)"}
ProbeResults == OkResults \cup ErrResults \cup {WouldBlock}

NoPoller == [pc |-> "none", non_blocking |-> FALSE, probes |-> 0,
             registered |-> FALSE, first |-> "none", second |-> "none",
             result |-> "none"]
IdleHandler == [pc |-> "idle", irq |-> 0, s |-> {}]
NoTimeout == [task |-> NoTask, duration |-> NoDuration]
NoCall == [fn |-> "none", key |-> NoKey, waker |-> NoTask, ret |-> "none"]

Min(a, b) == IF a <= b THEN a ELSE b
Bool(b) == IF b THEN "true" ELSE "false"

IdleAlarm == [pc |-> "idle", task |-> NoTask, deadline |-> NoDeadline,
              ticket_id |-> 0, prior |-> {}]
\* lastFire: the event of the last callback, whether the task's ticket was the
\* event's at that time, whether unblock_task was called, and the history of
\* the event.
NoFire == [ticket_id |-> 0, task |-> NoTask, same |-> FALSE, unblock |-> FALSE,
           stale |-> FALSE, notified |-> FALSE, racing |-> FALSE]

Init ==
    /\ now = 0
    /\ TIMER_TICKET_ID = 1
    /\ timer_ticket = [t \in Tasks |-> 0]
    /\ TIMER_LIST = [c \in Cpus |-> {}]
    /\ alarm = [c \in Cpus |-> IdleAlarm]
    /\ draining = [c \in Cpus |-> FALSE]
    /\ lastFire = NoFire
    /\ listeners = <<>>
    /\ lstate = [t \in Tasks |-> "None"]
    /\ notifyRet = "none"
    /\ cond = FALSE
    /\ pc = [t \in Tasks |-> "idle"]
    /\ op = [t \in Tasks |-> "none"]
    /\ woken = [t \in Tasks |-> FALSE]
    /\ deadline = [t \in Tasks |-> NoDeadline]
    /\ tdl = [t \in Tasks |-> NoDeadline]
    /\ opReady = [t \in Tasks |-> FALSE]
    /\ tkey = [t \in Tasks |-> NoKey]
    /\ sleepSt = [t \in Tasks |-> "none"]
    /\ tres = [t \in Tasks |-> "none"]
    /\ ret = [t \in Tasks |-> "none"]
    /\ firstCond = [t \in Tasks |-> "none"]
    /\ lastCond = [t \in Tasks |-> "none"]
    /\ TIMER_RUNTIME = [key |-> 0, wheel |-> {}]
    /\ superseded = {}
    /\ notifyWoke = {}
    /\ wakeLog = <<>>
    /\ stored = [k \in Keys |-> NoTask]
    /\ invoked = [k \in Keys |-> 0]
    /\ cancelled = {}
    /\ rtCall = NoCall
    /\ TIMER_CALLBACKS = <<>>
    /\ cbLog = <<>>
    /\ wakeHeld = {}
    /\ timeoutCall = NoTimeout
    /\ poller = [t \in Tasks |-> NoPoller]
    /\ ready = WouldBlock
    /\ pollSet = {}
    /\ POLL_IRQ = [n \in {} |-> {}]
    /\ irqRegistered = [n \in Irqs |-> 0]
    /\ irqHandler = [c \in Cpus |-> IdleHandler]

\* A step that is no notify call and no wake pass leaves no result of one
\* behind.  Reset: a step of the wait queue, the timers or the wheel; Quiet: one
\* that does not touch the wheel.
NoCallbacks ==
    /\ cbLog' = <<>>
    /\ UNCHANGED TIMER_CALLBACKS
NoCalls ==
    /\ rtCall' = NoCall
    /\ timeoutCall' = NoTimeout
    /\ NoCallbacks
    /\ wakeHeld' = {}
Transient ==
    /\ notifyRet' = "none"
    /\ wakeLog' = <<>>
    /\ NoCalls
Reset ==
    /\ Transient
    /\ UNCHANGED <<pollVars, irqVars>>
Quiet ==
    /\ Reset
    /\ UNCHANGED wheelHist

\* The clock advances.
Tick ==
    /\ now < MaxTime
    /\ now' = now + 1
    /\ Quiet
    /\ UNCHANGED <<timerVars, eventVars, cond, taskVars, woken,
                   TIMER_RUNTIME, notifyWoke>>

(***************************************************************************)
(* The run queue's unblock_task and the task's waker: the task is made     *)
(* runnable; block_on polls its future again.                              *)
(***************************************************************************)
Wake(w, S) == [t \in Tasks |-> w[t] \/ t \in S]

(***************************************************************************)
(* timers.rs: the per-CPU timer lists and the ticket check.                *)
(***************************************************************************)

\* TaskWakeupEvent { ticket_id, task } as stored by timer_list.set(deadline, ..).
TaskWakeupEvent(d, k, t) == [deadline |-> d, ticket_id |-> k, task |-> t]

\* The tickets of the pending entries, on any CPU, of the tasks in S.
PendingTickets(S) ==
    {e.ticket_id : e \in {f \in UNION {TIMER_LIST[c] : c \in Cpus} : f.task \in S}}

\* Those of them whose deadline is still ahead.
PendingBefore(S) ==
    {e.ticket_id : e \in {f \in UNION {TIMER_LIST[c] : c \in Cpus} :
                              f.task \in S /\ now < f.deadline}}

\* AtomicU64::fetch_add(n): the value it stores (it returns the one before);
\* the addition wraps at the width's end.
AtomicU64_fetch_keeps(v, n) == v
AtomicU64_fetch_add(v, n) ==
    IF v > usize_MAX - n THEN v - (usize_MAX - n) - 1 ELSE v + n

\* set_alarm_wakeup, first half: TIMER_TICKET_ID.fetch_add(1).  Another CPU may
\* run between the fetch and the store of the ticket on the task.
set_alarm_wakeup_fetch(c, t, d) ==
    /\ alarm[c].pc = "idle"
    /\ ~draining[c]
    /\ TIMER_TICKET_ID <= MaxTicket
    /\ alarm' = [alarm EXCEPT ![c] = [pc |-> "set", task |-> t, deadline |-> d,
                                      ticket_id |-> TIMER_TICKET_ID,
                                      prior |-> PendingTickets({t})]]
    /\ TIMER_TICKET_ID' = AtomicU64_fetch_add(TIMER_TICKET_ID, 1)
    /\ Quiet
    /\ UNCHANGED <<now, timer_ticket, TIMER_LIST, draining, lastFire,
                   superseded, eventVars, cond, taskVars, woken,
                   TIMER_RUNTIME, notifyWoke>>

\* set_alarm_wakeup, second half: task.set_timer_ticket(ticket_id), then
\* timer_list.set(deadline, event) on the current CPU's list.
set_alarm_wakeup_set(c) ==
    /\ alarm[c].pc = "set"
    /\ ~draining[c]
    /\ timer_ticket' = [timer_ticket EXCEPT ![alarm[c].task] = alarm[c].ticket_id]
    /\ TIMER_LIST' = [TIMER_LIST EXCEPT ![c] =
           @ \cup {TaskWakeupEvent(alarm[c].deadline, alarm[c].ticket_id, alarm[c].task)}]
    /\ alarm' = [alarm EXCEPT ![c] = IdleAlarm]
    /\ superseded' = superseded \cup (alarm[c].prior \cap PendingTickets(Tasks))
    /\ Quiet
    /\ UNCHANGED <<now, TIMER_TICKET_ID, draining, lastFire, eventVars, cond, taskVars, woken, TIMER_RUNTIME, notifyWoke>>

\* TimerList::expire_one(now) looks at the event with the least deadline; events
\* of equal deadline come out in an order the heap does not promise.
Earliest(S) == {e \in S : \A f \in S : e.deadline <= f.deadline}
expire_one_not_due(c, time) == Earliest(TIMER_LIST[c])
expire_one_any_cpu(c, time) ==
    {e \in Earliest(UNION {TIMER_LIST[d] : d \in Cpus}) : e.deadline <= time}
expire_one(c, time) == {e \in Earliest(TIMER_LIST[c]) : e.deadline <= time}

\* TaskWakeupEvent::callback's test: the event counts when the task's ticket is
\* still the one the event was created with.
TicketMatchesAlways(e) == TRUE
TicketMatches(e) == timer_ticket[e.task] = e.ticket_id

\* register_timer_callback(callback): TIMER_CALLBACKS.lock().push(..).
register_timer_callback(f) ==
    /\ Len(TIMER_CALLBACKS) < MaxCallbacks
    /\ TIMER_CALLBACKS' = Append(TIMER_CALLBACKS, f)
    /\ cbLog' = <<>>
    /\ notifyRet' = "none"
    /\ wakeLog' = <<>>
    /\ rtCall' = NoCall
    /\ timeoutCall' = NoTimeout
    /\ wakeHeld' = {}
    /\ UNCHANGED <<now, timerVars, eventVars, cond, taskVars, woken, TIMER_RUNTIME,
                   notifyWoke, wheelHist, pollVars, irqVars>>

\* `for callback in TIMER_CALLBACKS.lock().iter() { callback(wall_time()) }`:
\* the calls it makes, in order.
call_callbacks_reversed(cbs, time) ==
    [i \in 1..Len(cbs) |-> [callback |-> cbs[Len(cbs) + 1 - i], arg |-> time]]
call_callbacks(cbs, time) ==
    [i \in 1..Len(cbs) |-> [callback |-> cbs[i], arg |-> time]]

\* check_events is entered (from the timer interrupt of CPU c) and calls the
\* callbacks; its drain loop follows.
check_events(c) ==
    /\ ~draining[c]
    /\ draining' = [draining EXCEPT ![c] = TRUE]
    /\ cbLog' = call_callbacks(TIMER_CALLBACKS, now)
    /\ notifyRet' = "none"
    /\ wakeLog' = <<>>
    /\ rtCall' = NoCall
    /\ timeoutCall' = NoTimeout
    /\ wakeHeld' = {}
    /\ UNCHANGED <<wheelHist, pollVars, irqVars, TIMER_CALLBACKS>>
    /\ UNCHANGED <<now, TIMER_TICKET_ID, timer_ticket, TIMER_LIST, alarm, lastFire,
                   superseded, eventVars, cond, taskVars,
                   woken, TIMER_RUNTIME, notifyWoke>>

\* One turn of check_events' loop: expire_one(now), then the callback of the
\* event, or the break when nothing is due.
check_events_loop(c) ==
    /\ draining[c]
    /\ IF expire_one(c, now) = {}
       THEN /\ draining' = [draining EXCEPT ![c] = FALSE]
            /\ UNCHANGED <<TIMER_LIST, lastFire, woken, superseded, notifyWoke>>
       ELSE \E e \in expire_one(c, now) :
            /\ TIMER_LIST' = [TIMER_LIST EXCEPT ![c] = @ \ {e}]
            /\ lastFire' = [ticket_id |-> e.ticket_id, task |-> e.task,
                            same |-> (timer_ticket[e.task] = e.ticket_id),
                            unblock |-> TicketMatches(e),
                            stale |-> (e.ticket_id \in superseded),
                            notified |-> (e.ticket_id \in notifyWoke),
                            racing |-> (\E d \in Cpus : alarm[d].task = e.task)]
            /\ woken' = IF TicketMatches(e) THEN Wake(woken, {e.task}) ELSE woken
            /\ superseded' = superseded \ {e.ticket_id}
            /\ notifyWoke' = notifyWoke \ {e.ticket_id}
            /\ UNCHANGED draining
    /\ Quiet
    /\ UNCHANGED <<now, TIMER_TICKET_ID, timer_ticket, alarm,
                   eventVars, cond, taskVars, TIMER_RUNTIME>>

(***************************************************************************)
(* WaitQueue.event: the listener list of event_listener::Event.            *)
(* Event::notify(n) makes sure that n listeners are notified: listeners    *)
(* that are notified and still in the list count towards n.  A listener    *)
(* that is dropped while notified hands its notification to the next one.  *)
(***************************************************************************)

Notified(ls) == {t \in Tasks : ls[t] = "Notified"}
Unnotified(q, ls) == SelectSeq(q, LAMBDA t : ls[t] # "Notified")

\* The listeners Event::notify(n) notifies, given list q and states ls.
EventNotify(q, ls, n) ==
    LET un == Unnotified(q, ls)
        nn == Cardinality(Notified(ls))
        k == IF n < nn THEN 0 ELSE Min(n - nn, Len(un))
    IN  {un[i] : i \in 1..k}

MarkNotified(ls, S) == [t \in Tasks |-> IF t \in S THEN "Notified" ELSE ls[t]]
\* The wakers Event::notify calls: those of the listeners that had stored one.
WakersOf(ls, S) == {t \in S : ls[t] = "Task"}

\* WaitQueue::notify_one(resched) and notify_all(resched): event.notify(n),
\* and what the call returns, `n > 0` of the count notified for notify_one.
\* yield_now() after the notify changes nothing of this state.
Notify(n, returns) ==
    LET S == EventNotify(listeners, lstate, n)
    IN  /\ lstate' = MarkNotified(lstate, S)
        /\ woken' = Wake(woken, WakersOf(lstate, S))
        /\ notifyWoke' = notifyWoke \cup PendingBefore(WakersOf(lstate, S))
        /\ notifyRet' = IF returns = "bool" THEN Bool(Cardinality(S) > 0) ELSE "unit"
        /\ wakeLog' = <<>>
        /\ NoCalls
        /\ UNCHANGED <<wheelHist, pollVars, irqVars>>
        /\ UNCHANGED <<now, timerVars, listeners, cond, taskVars, TIMER_RUNTIME>>

notify_one == \E resched \in BOOLEAN : Notify(1, "bool")
\* The count notify_all hands to event.notify.
notify_all_just_one(max) == 1
notify_all_count(max) == max
notify_all == \E resched \in BOOLEAN : Notify(notify_all_count(usize_MAX), "unit")

RemoveFrom(q, t) == SelectSeq(q, LAMBDA u : u # t)

\* A listener leaves the list: propagate is FALSE when its poll returned Ready
\* and TRUE when it is dropped.  Yields <<list, states, wakers called>>.
ListenerRemove(t, propagate) ==
    LET q1 == RemoveFrom(listeners, t)
        ls1 == [lstate EXCEPT ![t] = "None"]
        S == IF propagate /\ lstate[t] = "Notified"
             THEN EventNotify(q1, ls1, 1) ELSE {}
    IN  <<q1, MarkNotified(ls1, S), WakersOf(ls1, S)>>

\* listener!(self.event => listener): a new listener at the tail of the list.
Listen(t) ==
    /\ listeners' = Append(listeners, t)
    /\ lstate' = [lstate EXCEPT ![t] = "Created"]

(***************************************************************************)
(* The tasks.  block_on(future) polls the future; on Pending the task      *)
(* blocks until its waker is called, then the future is polled again at    *)
(* the await it was pending on.                                            *)
(***************************************************************************)

\* Where a blocked operation is polled again.
ResumePoint(o) ==
    CASE o = "wait" -> "w_poll"
      [] o = "wait_until" -> "wu_await"
      [] OTHER -> "ta_op"   \* timeout_at polls the operation first, then the sleep

\* block_on: the task's waker was called, the future is polled again.
block_on_resume(t) ==
    /\ pc[t] = "blocked"
    /\ woken[t]
    /\ woken' = [woken EXCEPT ![t] = FALSE]
    /\ pc' = [pc EXCEPT ![t] = ResumePoint(op[t])]
    /\ Quiet
    /\ UNCHANGED <<now, timerVars, eventVars, cond, op, deadline, tdl, tkey,
                   sleepSt, tres, ret, firstCond, lastCond, opReady, TIMER_RUNTIME,
                   notifyWoke>>

\* The operation has returned; the task may start another one.
task_return(t) ==
    /\ pc[t] = "done"
    /\ pc' = [pc EXCEPT ![t] = "idle"]
    /\ op' = [op EXCEPT ![t] = "none"]
    /\ deadline' = [deadline EXCEPT ![t] = NoDeadline]
    /\ tres' = [tres EXCEPT ![t] = "none"]
    /\ ret' = [ret EXCEPT ![t] = "none"]
    /\ firstCond' = [firstCond EXCEPT ![t] = "none"]
    /\ lastCond' = [lastCond EXCEPT ![t] = "none"]
    /\ tdl' = [tdl EXCEPT ![t] = NoDeadline]
    /\ opReady' = [opReady EXCEPT ![t] = FALSE]
    /\ Quiet
    /\ UNCHANGED <<now, timerVars, eventVars, cond, woken, tkey, sleepSt,
                   TIMER_RUNTIME, notifyWoke>>

\* WaitQueue::wait: listener!(self.event => listener), then block_on(listener).
wait(t) ==
    /\ pc[t] = "idle"
    /\ Listen(t)
    /\ op' = [op EXCEPT ![t] = "wait"]
    /\ pc' = [pc EXCEPT ![t] = "w_poll"]
    /\ Quiet
    /\ UNCHANGED <<now, timerVars, cond, woken, deadline, tdl, tkey, sleepSt,
                   tres, ret, firstCond, lastCond, opReady, TIMER_RUNTIME,
                   notifyWoke>>

\* The poll of the listener in wait: Ready when notified (the listener leaves the
\* list), else the waker is stored and the task blocks.
wait_poll(t) ==
    /\ pc[t] = "w_poll"
    /\ IF lstate[t] = "Notified"
       THEN /\ listeners' = ListenerRemove(t, FALSE)[1]
            /\ lstate' = ListenerRemove(t, FALSE)[2]
            /\ pc' = [pc EXCEPT ![t] = "done"]
            /\ ret' = [ret EXCEPT ![t] = "unit"]
       ELSE /\ lstate' = [lstate EXCEPT ![t] = "Task"]
            /\ pc' = [pc EXCEPT ![t] = "blocked"]
            /\ UNCHANGED <<listeners, ret>>
    /\ Quiet
    /\ UNCHANGED <<now, timerVars, cond, op, woken, deadline, tdl, tkey,
                   sleepSt, tres, firstCond, lastCond, opReady,
                   TIMER_RUNTIME, notifyWoke>>

(***************************************************************************)
(* future/time.rs: the async timer wheel TIMER_RUNTIME.                    *)
(* An entry is [deadline, key, state, waker]: Active(None) has waker       *)
(* NoTask, Completed has none.                                             *)
(***************************************************************************)

TimerKey(d, k) == [deadline |-> d, key |-> k]
Lookup(rt, k) == {e \in rt.wheel : e.deadline = k.deadline /\ e.key = k.key}

\* TimerRuntime::add: `deadline <= wall_time()` gives None.
add_is_past_early(d, time) == d <= time + 1
add_is_past(d, time) == d <= time

\* TimerRuntime::add past that test: the entry Active(None) under the key that
\* carries the counter, and the counter's increment.
add_keeps_counter(rt, d) ==
    [key |-> rt.key,
     wheel |-> rt.wheel \cup {[deadline |-> d, key |-> rt.key, state |-> "Active",
                               waker |-> NoTask]}]
TimerRuntime_add(rt, d) ==
    [key |-> rt.key + 1,
     wheel |-> rt.wheel \cup {[deadline |-> d, key |-> rt.key, state |-> "Active",
                               waker |-> NoTask]}]

\* TimerRuntime::update_waker: the entry under the key, when there is one,
\* becomes Active(Some(waker)).
update_waker_keeps_first(rt, k, w) ==
    [rt EXCEPT !.wheel = {IF e \in Lookup(rt, k) /\ e.waker = NoTask
                          THEN [e EXCEPT !.state = "Active", !.waker = w]
                          ELSE e : e \in rt.wheel}]
TimerRuntime_update_waker(rt, k, w) ==
    [rt EXCEPT !.wheel = {IF e \in Lookup(rt, k)
                          THEN [e EXCEPT !.state = "Active", !.waker = w]
                          ELSE e : e \in rt.wheel}]

\* TimerRuntime::is_completed: its result, and the wheel it leaves.
is_completed_never(rt, k) == FALSE
is_completed(rt, k) == \E e \in Lookup(rt, k) : e.state = "Completed"
is_completed_keeps_entry(rt, k) == rt
TimerRuntime_is_completed(rt, k) ==
    IF is_completed(rt, k) THEN [rt EXCEPT !.wheel = @ \ Lookup(rt, k)] ELSE rt

\* TimerRuntime::cancel.
cancel_keeps_entry(rt, k) == rt
cancel_clears_wheel(rt, k) == [rt EXCEPT !.wheel = {}]
TimerRuntime_cancel(rt, k) == [rt EXCEPT !.wheel = @ \ Lookup(rt, k)]

\* #[derive(PartialOrd, Ord)] on TimerKey { deadline, key }: the fields are
\* compared in the order they are declared.
TimerKey_lt_key_first(a, b) ==
    \/ a.key < b.key
    \/ a.key = b.key /\ a.deadline < b.deadline
TimerKey_lt(a, b) ==
    \/ a.deadline < b.deadline
    \/ a.deadline = b.deadline /\ a.key < b.key

\* BTreeMap::iter_mut: the entries in ascending order of their keys.
RECURSIVE iter_mut(_)
iter_mut(W) ==
    IF W = {} THEN <<>>
    ELSE LET first == CHOOSE e \in W : \A f \in W : ~TimerKey_lt(f, e)
         IN  <<first>> \o iter_mut(W \ {first})

\* Iterator::take_while(|(k, _)| k.deadline <= wall_time()): the entries up to
\* the first one the test refuses.
wake_takes(e, time) == e.deadline <= time
RECURSIVE take_while(_, _)
take_while(seq, time) ==
    IF seq = <<>> \/ ~wake_takes(Head(seq), time) THEN <<>>
    ELSE <<Head(seq)>> \o take_while(Tail(seq), time)

\* TimerRuntime::wake: the entries it takes in the order it takes them, the
\* wheel it leaves, the wakers it calls, and the record of the pass.
wake_pass(rt, time) == take_while(iter_mut(rt.wheel), time)
wake_taken(rt, time) == {wake_pass(rt, time)[i] : i \in 1..Len(wake_pass(rt, time))}
wake_completes(e) == [e EXCEPT !.state = "Completed", !.waker = NoTask]
TimerRuntime_wake(rt, time) ==
    [rt EXCEPT !.wheel = {IF e \in wake_taken(rt, time) THEN wake_completes(e)
                          ELSE e : e \in rt.wheel}]
wake_calls(e) == IF e.state = "Active" THEN e.waker ELSE NoTask
wake_wakers(rt, time) ==
    {wake_calls(e) : e \in wake_taken(rt, time)} \ {NoTask}
wake_log(rt, time) ==
    [i \in 1..Len(wake_pass(rt, time)) |->
        [deadline |-> wake_pass(rt, time)[i].deadline,
         key |-> wake_pass(rt, time)[i].key,
         waker |-> wake_calls(wake_pass(rt, time)[i])]]
\* The key numbers of the entries a pass has called a waker of.
LogCalled(log) == {log[i].key : i \in {j \in 1..Len(log) : log[j].waker # NoTask}}

\* check_timer_events: TIMER_RUNTIME.lock().wake().  The guard lives to the end
\* of the statement, so wake() runs, and calls the wakers, under the lock.
check_timer_events_locks(wakers) == IF wakers = {} THEN {} ELSE {"TIMER_RUNTIME"}
check_timer_events ==
    /\ TIMER_RUNTIME' = TimerRuntime_wake(TIMER_RUNTIME, now)
    /\ woken' = Wake(woken, wake_wakers(TIMER_RUNTIME, now))
    /\ wakeLog' = wake_log(TIMER_RUNTIME, now)
    /\ invoked' = [k \in Keys |->
                     IF k \in LogCalled(wake_log(TIMER_RUNTIME, now))
                     THEN Min(invoked[k] + 1, MaxInvoked) ELSE invoked[k]]
    /\ wakeHeld' = check_timer_events_locks(LogCalled(wake_log(TIMER_RUNTIME, now)))
    /\ notifyRet' = "none"
    /\ rtCall' = NoCall
    /\ timeoutCall' = NoTimeout
    /\ NoCallbacks
    /\ UNCHANGED <<now, timerVars, eventVars, cond, taskVars, notifyWoke, stored,
                   cancelled, pollVars, irqVars>>

\* The history of the wheel.  HistStored: a poll has handed w to update_waker
\* for the entry under k.  HistDropped: the TimerFuture of k is gone, by a poll
\* that found it completed or by a drop, and its drop has called cancel(k).
HistStored(k, w) ==
    /\ stored' = [stored EXCEPT ![k.key] = w]
    /\ UNCHANGED <<invoked, cancelled>>
HistDropped(k) ==
    /\ stored' = [stored EXCEPT ![k.key] = NoTask]
    /\ invoked' = [invoked EXCEPT ![k.key] = 0]
    /\ cancelled' = cancelled \cup {k.key}

(***************************************************************************)
(* The methods of TimerRuntime called on their own, with any key.          *)
(***************************************************************************)
\* The keys a caller may hold: any deadline with any number add hands out.
RtKeys == {TimerKey(d, n) : d \in Times, n \in 0 .. MaxRtKey - 1}
\* What the rest of the model keeps when a method of TimerRuntime is called.
rtFrame == <<now, timerVars, eventVars, cond, taskVars, woken, notifyWoke,
             pollVars, irqVars>>
RtReturns(fn, k, w, r) ==
    /\ rtCall' = [fn |-> fn, key |-> k, waker |-> w, ret |-> r]
    /\ timeoutCall' = NoTimeout
    /\ notifyRet' = "none"
    /\ wakeLog' = <<>>
    /\ NoCallbacks
    /\ wakeHeld' = {}
    /\ UNCHANGED rtFrame

\* TIMER_RUNTIME.lock().add(deadline).
rt_add(d) ==
    /\ IF add_is_past(d, now)
       THEN /\ RtReturns("add", NoKey, NoTask, "None")
            /\ UNCHANGED TIMER_RUNTIME
       ELSE /\ TIMER_RUNTIME.key < MaxRtKey
            /\ TIMER_RUNTIME' = TimerRuntime_add(TIMER_RUNTIME, d)
            /\ RtReturns("add", TimerKey(d, TIMER_RUNTIME.key), NoTask, "Some")
    /\ UNCHANGED wheelHist

\* TIMER_RUNTIME.lock().update_waker(&key, waker).
rt_update_waker(k, w) ==
    /\ TIMER_RUNTIME' = TimerRuntime_update_waker(TIMER_RUNTIME, k, w)
    /\ RtReturns("update_waker", k, w, "unit")
    /\ UNCHANGED wheelHist

\* TIMER_RUNTIME.lock().is_completed(&key).
rt_is_completed(k) ==
    /\ TIMER_RUNTIME' = TimerRuntime_is_completed(TIMER_RUNTIME, k)
    /\ RtReturns("is_completed", k, NoTask, Bool(is_completed(TIMER_RUNTIME, k)))
    /\ invoked' = IF is_completed(TIMER_RUNTIME, k)
                  THEN [invoked EXCEPT ![k.key] = 0] ELSE invoked
    /\ UNCHANGED <<stored, cancelled>>

\* TIMER_RUNTIME.lock().cancel(&key).
rt_cancel(k) ==
    /\ TIMER_RUNTIME' = TimerRuntime_cancel(TIMER_RUNTIME, k)
    /\ RtReturns("cancel", k, NoTask, "unit")
    /\ invoked' = IF Lookup(TIMER_RUNTIME, k) # {}
                  THEN [invoked EXCEPT ![k.key] = 0] ELSE invoked
    /\ UNCHANGED <<stored, cancelled>>

(***************************************************************************)
(* timeout_at(deadline, f) with f a listener of the wait queue.            *)
(* select_biased! polls f first and sleep_until(deadline) second.          *)
(***************************************************************************)

\* timeout_at's `if let Some(deadline) = deadline`.
timeout_at_always_arms(d) == TRUE
timeout_at_arms(d) == d # NoDeadline

\* wait_timeout's result from timeout_at's: `.is_ok()`.
wait_timeout_result(r) == IF r = "Ok" THEN "true" ELSE "false"

\* The deadline wait_timeout_until hands to timeout_at in every turn of its loop.
wait_timeout_until_fresh_deadline(t) == now + 1
wait_timeout_until_deadline(t) == deadline[t]

\* timeout_at has returned r: wait_timeout returns, wait_timeout_until goes
\* round its loop, a bare timeout_at is done.
TimeoutReturns(t, r) ==
    /\ tres' = [tres EXCEPT ![t] = r]
    /\ pc' = [pc EXCEPT ![t] = IF op[t] = "wait_timeout_until" THEN "wtu_check"
                               ELSE "done"]
    /\ ret' = [ret EXCEPT ![t] = IF op[t] = "wait_timeout"
                                 THEN wait_timeout_result(r) ELSE @]

\* timeout_at(deadline, listener) is entered by a task on a listener it created.
timeout_at_enter(t, d) ==
    /\ pc[t] = "idle"
    /\ Listen(t)
    /\ op' = [op EXCEPT ![t] = "timeout_at"]
    /\ tdl' = [tdl EXCEPT ![t] = d]
    /\ sleepSt' = [sleepSt EXCEPT ![t] = IF timeout_at_arms(d) THEN "unstarted"
                                         ELSE "none"]
    /\ pc' = [pc EXCEPT ![t] = "ta_op"]
    /\ UNCHANGED <<now, timerVars, cond, woken, deadline, tkey, tres, ret,
                   firstCond, lastCond, opReady, TIMER_RUNTIME, notifyWoke>>

\* timeout_at called on its own.
timeout_at(t, d) ==
    /\ timeout_at_enter(t, d)
    /\ Quiet

\* timeout(duration, f): the deadline is
\* duration.and_then(|x| x.checked_add(wall_time())), None when there is no
\* duration and when the sum overflows the time type.
wrapping_add(d, time) ==
    IF d > TimeValue_MAX - time THEN d - (TimeValue_MAX - time) - 1 ELSE d + time
checked_add(d, time) == IF d > TimeValue_MAX - time THEN NoDeadline ELSE d + time
timeout_deadline(dur, time) ==
    IF dur = NoDuration THEN NoDeadline ELSE checked_add(dur, time)
timeout(t, dur) ==
    /\ timeout_at_enter(t, timeout_deadline(dur, now))
    /\ timeoutCall' = [task |-> t, duration |-> dur]
    /\ rtCall' = NoCall
    /\ notifyRet' = "none"
    /\ wakeLog' = <<>>
    /\ NoCallbacks
    /\ wakeHeld' = {}
    /\ UNCHANGED <<pollVars, irqVars, wheelHist>>

\* WaitQueue::wait_timeout(dur): the deadline, the listener, timeout_at.
wait_timeout(t, dur) ==
    /\ pc[t] = "idle"
    /\ Listen(t)
    /\ op' = [op EXCEPT ![t] = "wait_timeout"]
    /\ deadline' = [deadline EXCEPT ![t] = now + dur]
    /\ tdl' = [tdl EXCEPT ![t] = now + dur]
    /\ sleepSt' = [sleepSt EXCEPT ![t] = IF timeout_at_arms(now + dur) THEN "unstarted"
                                         ELSE "none"]
    /\ pc' = [pc EXCEPT ![t] = "ta_op"]
    /\ Quiet
    /\ UNCHANGED <<now, timerVars, cond, woken, tkey, tres, ret,
                   firstCond, lastCond, opReady, TIMER_RUNTIME, notifyWoke>>

\* What a poll of the second arm would find: sleep_until's add returning None,
\* or the TimerFuture's entry Completed.
sleep_ready(t) ==
    CASE sleepSt[t] = "unstarted" -> add_is_past(tdl[t], now)
      [] sleepSt[t] = "timer" -> is_completed(TIMER_RUNTIME, tkey[t])
      [] OTHER -> FALSE

\* select_biased! takes its arms in the order written: the first arm, the
\* operation, wins whenever it is ready, whatever the sleep would return.
select_sleep_first(op_ready, timer_ready) == op_ready /\ ~timer_ready
select_biased_first(op_ready, timer_ready) == op_ready

\* The first arm of the select: the listener is polled.  Ready: the sleep is
\* dropped (TimerFuture::drop cancels its entry) and timeout_at returns Ok.
timeout_at_poll_op(t) ==
    /\ pc[t] = "ta_op"
    /\ IF select_biased_first(lstate[t] = "Notified", sleep_ready(t))
       THEN /\ listeners' = ListenerRemove(t, FALSE)[1]
            /\ lstate' = ListenerRemove(t, FALSE)[2]
            /\ TIMER_RUNTIME' = IF sleepSt[t] = "timer"
                                THEN TimerRuntime_cancel(TIMER_RUNTIME, tkey[t])
                                ELSE TIMER_RUNTIME
            /\ tkey' = [tkey EXCEPT ![t] = NoKey]
            /\ sleepSt' = [sleepSt EXCEPT ![t] = "none"]
            /\ opReady' = [opReady EXCEPT ![t] = TRUE]
            /\ TimeoutReturns(t, "Ok")
            /\ IF sleepSt[t] = "timer" THEN HistDropped(tkey[t])
               ELSE UNCHANGED wheelHist
       ELSE /\ lstate' = [lstate EXCEPT ![t] = "Task"]
            /\ pc' = [pc EXCEPT ![t] = CASE sleepSt[t] = "none" -> "blocked"
                                         [] sleepSt[t] = "unstarted" -> "ta_sleep"
                                         [] OTHER -> "ta_timer"]
            /\ UNCHANGED <<listeners, TIMER_RUNTIME, tkey, sleepSt, opReady, tres, ret>>
            /\ UNCHANGED wheelHist
    /\ Reset
    /\ UNCHANGED <<now, timerVars, cond, op, woken, deadline, tdl,
                   firstCond, lastCond, notifyWoke>>

\* The second arm, first poll: sleep_until(deadline) calls add.  None: the sleep
\* is over at once and timeout_at returns Err(Elapsed), dropping the listener.
sleep_until(t) ==
    /\ pc[t] = "ta_sleep"
    /\ IF add_is_past(tdl[t], now)
       THEN /\ listeners' = ListenerRemove(t, TRUE)[1]
            /\ lstate' = ListenerRemove(t, TRUE)[2]
            /\ woken' = Wake(woken, ListenerRemove(t, TRUE)[3])
            /\ sleepSt' = [sleepSt EXCEPT ![t] = "none"]
            /\ TimeoutReturns(t, "Elapsed")
            /\ UNCHANGED <<TIMER_RUNTIME, tkey>>
       ELSE /\ TIMER_RUNTIME.key < MaxKey
            /\ TIMER_RUNTIME' = TimerRuntime_add(TIMER_RUNTIME, tdl[t])
            /\ tkey' = [tkey EXCEPT ![t] = TimerKey(tdl[t], TIMER_RUNTIME.key)]
            /\ sleepSt' = [sleepSt EXCEPT ![t] = "timer"]
            /\ pc' = [pc EXCEPT ![t] = "ta_timer"]
            /\ UNCHANGED <<listeners, lstate, woken, tres, ret>>
    /\ Quiet
    /\ UNCHANGED <<now, timerVars, cond, op, deadline, tdl,
                   firstCond, lastCond, opReady, notifyWoke>>

\* TimerFuture::poll: Ready when is_completed (timeout_at returns Err(Elapsed)
\* and drops the listener), else update_waker and Pending.
TimerFuture_poll(t) ==
    /\ pc[t] = "ta_timer"
    /\ IF is_completed(TIMER_RUNTIME, tkey[t])
       THEN /\ TIMER_RUNTIME' = TimerRuntime_is_completed(TIMER_RUNTIME, tkey[t])
            /\ listeners' = ListenerRemove(t, TRUE)[1]
            /\ lstate' = ListenerRemove(t, TRUE)[2]
            /\ woken' = Wake(woken, ListenerRemove(t, TRUE)[3])
            /\ tkey' = [tkey EXCEPT ![t] = NoKey]
            /\ sleepSt' = [sleepSt EXCEPT ![t] = "none"]
            /\ TimeoutReturns(t, "Elapsed")
            /\ HistDropped(tkey[t])
       ELSE /\ TIMER_RUNTIME' = TimerRuntime_update_waker(TIMER_RUNTIME, tkey[t], t)
            /\ pc' = [pc EXCEPT ![t] = "blocked"]
            /\ UNCHANGED <<listeners, lstate, woken, tkey, sleepSt, tres, ret>>
            /\ HistStored(tkey[t], t)
    /\ Reset
    /\ UNCHANGED <<now, timerVars, cond, op, deadline, tdl,
                   firstCond, lastCond, opReady, notifyWoke>>

(***************************************************************************)
(* WaitQueue::wait_timeout_until(dur, condition).                          *)
(***************************************************************************)

\* `let deadline = wall_time() + dur`, then block_on polls the loop.
wait_timeout_until(t, dur) ==
    /\ pc[t] = "idle"
    /\ op' = [op EXCEPT ![t] = "wait_timeout_until"]
    /\ deadline' = [deadline EXCEPT ![t] = now + dur]
    /\ pc' = [pc EXCEPT ![t] = "wtu_check"]
    /\ Quiet
    /\ UNCHANGED <<now, timerVars, eventVars, cond, woken, tdl, tkey, sleepSt,
                   tres, ret, firstCond, lastCond, opReady, TIMER_RUNTIME, notifyWoke>>

\* The head of the loop: `if condition() { return false }`, then
\* `if wall_time() >= deadline { return true }`.
wait_timeout_until_check(t) ==
    /\ pc[t] = "wtu_check"
    /\ lastCond' = [lastCond EXCEPT ![t] = Bool(cond)]
    /\ IF cond
       THEN /\ ret' = [ret EXCEPT ![t] = "false"]
            /\ pc' = [pc EXCEPT ![t] = "done"]
       ELSE IF now >= deadline[t]
            THEN /\ ret' = [ret EXCEPT ![t] = "true"]
                 /\ pc' = [pc EXCEPT ![t] = "done"]
            ELSE /\ pc' = [pc EXCEPT ![t] = "wtu_listen"]
                 /\ UNCHANGED ret
    /\ Quiet
    /\ UNCHANGED <<now, timerVars, eventVars, cond, op, woken, deadline, tdl,
                   tkey, sleepSt, tres, firstCond, opReady, TIMER_RUNTIME,
                   notifyWoke>>

\* `listener!(self.event => listener)`, then timeout_at(Some(deadline), listener).
wait_timeout_until_listen(t) ==
    /\ pc[t] = "wtu_listen"
    /\ Listen(t)
    /\ tdl' = [tdl EXCEPT ![t] = wait_timeout_until_deadline(t)]
    /\ sleepSt' = [sleepSt EXCEPT ![t] =
                      IF timeout_at_arms(wait_timeout_until_deadline(t))
                      THEN "unstarted" ELSE "none"]
    /\ tres' = [tres EXCEPT ![t] = "none"]
    /\ opReady' = [opReady EXCEPT ![t] = FALSE]
    /\ pc' = [pc EXCEPT ![t] = "ta_op"]
    /\ Quiet
    /\ UNCHANGED <<now, timerVars, cond, op, woken, deadline, tkey, ret,
                   firstCond, lastCond, TIMER_RUNTIME, notifyWoke>>

(***************************************************************************)
(* WaitQueue::wait_until(condition).                                       *)
(***************************************************************************)

\* Where the loop goes after the listener is created, and after the await.
wait_until_skips_second_check == "wu_await"
wait_until_after_listen == "wu_check2"
wait_until_returns_when_woken == "done"
wait_until_after_await == "wu_check1"

wait_until(t) ==
    /\ pc[t] = "idle"
    /\ op' = [op EXCEPT ![t] = "wait_until"]
    /\ pc' = [pc EXCEPT ![t] = "wu_check1"]
    /\ Quiet
    /\ UNCHANGED <<now, timerVars, eventVars, cond, woken, deadline, tdl, tkey,
                   sleepSt, tres, ret, firstCond, lastCond, opReady,
                   TIMER_RUNTIME, notifyWoke>>

\* `if condition() { break }` at the head of the loop.
wait_until_check1(t) ==
    /\ pc[t] = "wu_check1"
    /\ lastCond' = [lastCond EXCEPT ![t] = Bool(cond)]
    /\ firstCond' = [firstCond EXCEPT ![t] = IF @ = "none" THEN Bool(cond) ELSE @]
    /\ pc' = [pc EXCEPT ![t] = IF cond THEN "done" ELSE "wu_listen"]
    /\ ret' = [ret EXCEPT ![t] = IF cond THEN "unit" ELSE @]
    /\ Quiet
    /\ UNCHANGED <<now, timerVars, eventVars, cond, op, woken, deadline, tdl,
                   tkey, sleepSt, tres, opReady, TIMER_RUNTIME, notifyWoke>>

\* `listener!(self.event => listener)`.
wait_until_listen(t) ==
    /\ pc[t] = "wu_listen"
    /\ Listen(t)
    /\ pc' = [pc EXCEPT ![t] = wait_until_after_listen]
    /\ Quiet
    /\ UNCHANGED <<now, timerVars, cond, op, woken, deadline, tdl, tkey,
                   sleepSt, tres, ret, firstCond, lastCond, opReady,
                   TIMER_RUNTIME, notifyWoke>>

\* `if condition() { break }` after the listener is registered; the break drops
\* the listener.
wait_until_check2(t) ==
    /\ pc[t] = "wu_check2"
    /\ lastCond' = [lastCond EXCEPT ![t] = Bool(cond)]
    /\ IF cond
       THEN /\ listeners' = ListenerRemove(t, TRUE)[1]
            /\ lstate' = ListenerRemove(t, TRUE)[2]
            /\ woken' = Wake(woken, ListenerRemove(t, TRUE)[3])
            /\ pc' = [pc EXCEPT ![t] = "done"]
            /\ ret' = [ret EXCEPT ![t] = "unit"]
       ELSE /\ pc' = [pc EXCEPT ![t] = "wu_await"]
            /\ UNCHANGED <<listeners, lstate, woken, ret>>
    /\ Quiet
    /\ UNCHANGED <<now, timerVars, cond, op, deadline, tdl, tkey, sleepSt,
                   tres, firstCond, opReady, TIMER_RUNTIME, notifyWoke>>

\* `listener.await`: Ready when notified, and the loop goes on; else the waker
\* is stored and the task blocks.
wait_until_await(t) ==
    /\ pc[t] = "wu_await"
    /\ IF lstate[t] = "Notified"
       THEN /\ listeners' = ListenerRemove(t, FALSE)[1]
            /\ lstate' = ListenerRemove(t, FALSE)[2]
            /\ pc' = [pc EXCEPT ![t] = wait_until_after_await]
       ELSE /\ lstate' = [lstate EXCEPT ![t] = "Task"]
            /\ pc' = [pc EXCEPT ![t] = "blocked"]
            /\ UNCHANGED listeners
    /\ Quiet
    /\ UNCHANGED <<now, timerVars, cond, op, woken, deadline, tdl, tkey,
                   sleepSt, tres, ret, firstCond, lastCond, opReady,
                   TIMER_RUNTIME, notifyWoke>>

\* Another task changes what the condition reads.
set_condition ==
    /\ cond' = ~cond
    /\ Quiet
    /\ UNCHANGED <<now, timerVars, eventVars, taskVars, woken,
                   TIMER_RUNTIME, notifyWoke>>

(***************************************************************************)
(* sleep and sleep_until awaited on their own: an executor polls the       *)
(* future with the waker of the task that runs it, and may drop it.        *)
(***************************************************************************)

\* sleep_until(deadline) is called by a task; its body runs in the first poll.
sleep_future(t, d) ==
    /\ pc[t] = "idle"
    /\ op' = [op EXCEPT ![t] = "sleep_until"]
    /\ tdl' = [tdl EXCEPT ![t] = d]
    /\ pc' = [pc EXCEPT ![t] = "sl_add"]
    /\ Quiet
    /\ UNCHANGED <<now, timerVars, eventVars, cond, woken, deadline, tkey, sleepSt,
                   tres, ret, firstCond, lastCond, opReady, TIMER_RUNTIME,
                   notifyWoke>>

\* sleep(duration): sleep_until(wall_time() + duration).
sleep(t, dur) == sleep_future(t, now + dur)

\* `let key = TIMER_RUNTIME.lock().add(deadline)`: None ends the sleep, Some(key)
\* makes TimerFuture(key).
sleep_add(t) ==
    /\ pc[t] = "sl_add"
    /\ IF add_is_past(tdl[t], now)
       THEN /\ pc' = [pc EXCEPT ![t] = "done"]
            /\ ret' = [ret EXCEPT ![t] = "unit"]
            /\ UNCHANGED <<TIMER_RUNTIME, tkey, sleepSt>>
       ELSE /\ TIMER_RUNTIME.key < MaxKey
            /\ TIMER_RUNTIME' = TimerRuntime_add(TIMER_RUNTIME, tdl[t])
            /\ tkey' = [tkey EXCEPT ![t] = TimerKey(tdl[t], TIMER_RUNTIME.key)]
            /\ sleepSt' = [sleepSt EXCEPT ![t] = "timer"]
            /\ pc' = [pc EXCEPT ![t] = "sl_timer"]
            /\ UNCHANGED ret
    /\ Quiet
    /\ UNCHANGED <<now, timerVars, eventVars, cond, op, woken, deadline, tdl, tres,
                   firstCond, lastCond, opReady, notifyWoke>>

\* TimerFuture::poll with the waker w: Ready when is_completed, and the
\* TimerFuture is dropped as sleep_until returns; else update_waker and Pending.
sleep_poll(t, w) ==
    /\ pc[t] \in {"sl_timer", "sl_pending"}
    /\ IF is_completed(TIMER_RUNTIME, tkey[t])
       THEN /\ TIMER_RUNTIME' = TimerRuntime_cancel(
                                    TimerRuntime_is_completed(TIMER_RUNTIME, tkey[t]),
                                    tkey[t])
            /\ tkey' = [tkey EXCEPT ![t] = NoKey]
            /\ sleepSt' = [sleepSt EXCEPT ![t] = "none"]
            /\ pc' = [pc EXCEPT ![t] = "done"]
            /\ ret' = [ret EXCEPT ![t] = "unit"]
            /\ HistDropped(tkey[t])
       ELSE /\ TIMER_RUNTIME' = TimerRuntime_update_waker(TIMER_RUNTIME, tkey[t], w)
            /\ pc' = [pc EXCEPT ![t] = "sl_pending"]
            /\ UNCHANGED <<tkey, sleepSt, ret>>
            /\ HistStored(tkey[t], w)
    /\ Reset
    /\ UNCHANGED <<now, timerVars, eventVars, cond, op, woken, deadline, tdl, tres,
                   firstCond, lastCond, opReady, notifyWoke>>

\* The sleep is dropped before it has ended: TimerFuture::drop cancels the entry
\* when there is a TimerFuture.
sleep_drop(t) ==
    /\ pc[t] \in {"sl_add", "sl_timer", "sl_pending"}
    /\ IF sleepSt[t] = "timer"
       THEN /\ TIMER_RUNTIME' = TimerRuntime_cancel(TIMER_RUNTIME, tkey[t])
            /\ HistDropped(tkey[t])
       ELSE UNCHANGED <<TIMER_RUNTIME, wheelHist>>
    /\ tkey' = [tkey EXCEPT ![t] = NoKey]
    /\ sleepSt' = [sleepSt EXCEPT ![t] = "none"]
    /\ pc' = [pc EXCEPT ![t] = "done"]
    /\ Reset
    /\ UNCHANGED <<now, timerVars, eventVars, cond, op, woken, deadline, tdl, tres,
                   ret, firstCond, lastCond, opReady, notifyWoke>>

(***************************************************************************)
(* future/poll.rs: Poller, a Pollable and a probe made into a future.      *)
(* The probe returns what the event source holds at the time of the call;  *)
(* an event at the source wakes the wakers registered with the Pollable    *)
(* and empties its set.                                                    *)
(***************************************************************************)

\* Poller::new: non_blocking is false.
Poller_new(t) ==
    /\ poller[t].pc = "none"
    /\ poller' = [poller EXCEPT ![t] = [NoPoller EXCEPT !.pc = "new"]]
    /\ Transient
    /\ UNCHANGED <<waitVars, woken, ready, pollSet, irqVars>>

\* Poller::non_blocking(flag), on a Poller not polled yet.
Poller_non_blocking(t, flag) ==
    /\ poller[t].pc = "new"
    /\ poller' = [poller EXCEPT ![t].non_blocking = flag]
    /\ Transient
    /\ UNCHANGED <<waitVars, woken, ready, pollSet, irqVars>>

\* The patterns of the two matches of Poller::poll.
IsWouldBlock(r) == r = WouldBlock
\* The first match: every arm but WouldBlock with non_blocking unset returns.
poll_first_never_returns(r, nb) == FALSE
poll_first_ignores_flag(r, nb) == ~IsWouldBlock(r)
poll_first_returns(r, nb) == ~IsWouldBlock(r) \/ nb
\* The second match: Ready(Ok(value)), Pending for WouldBlock, Ready(Err(e)).
poll_retry_pending(r) == "Pending"
poll_retry_result(r) == IF IsWouldBlock(r) THEN "Pending" ELSE r

\* Poller::poll up to the end of the first match: the first call of the probe.
\* The Poller is polled for the first time, or again once its waker was called.
Poller_poll(t) ==
    /\ \/ poller[t].pc = "new"
       \/ poller[t].pc = "pending" /\ woken[t]
    /\ woken' = [woken EXCEPT ![t] = FALSE]
    /\ poller' = [poller EXCEPT ![t] =
            [pc |-> IF poll_first_returns(ready, @.non_blocking) THEN "ready"
                    ELSE "register",
             non_blocking |-> @.non_blocking,
             probes |-> 1,
             registered |-> FALSE,
             first |-> ready,
             second |-> "none",
             result |-> IF poll_first_returns(ready, @.non_blocking) THEN ready
                        ELSE "none"]]
    /\ Transient
    /\ UNCHANGED <<waitVars, ready, pollSet, irqVars>>

\* self.pollable.register(cx, self.events).
Poller_register(t) ==
    /\ poller[t].pc = "register"
    /\ pollSet' = pollSet \cup {t}
    /\ poller' = [poller EXCEPT ![t].pc = "retry", ![t].registered = TRUE]
    /\ Transient
    /\ UNCHANGED <<waitVars, woken, ready, irqVars>>

\* The second call of the probe and the second match.
Poller_retry(t) ==
    /\ poller[t].pc = "retry"
    /\ poller' = [poller EXCEPT ![t].pc = IF poll_retry_result(ready) = "Pending"
                                          THEN "pending" ELSE "ready",
                                ![t].probes = @ + 1,
                                ![t].second = ready,
                                ![t].result = poll_retry_result(ready)]
    /\ Transient
    /\ UNCHANGED <<waitVars, woken, ready, pollSet, irqVars>>

\* The Poller is dropped, having returned Ready or while it is pending; what
\* it registered stays with the Pollable.
Poller_drop(t) ==
    /\ poller[t].pc \in {"new", "pending", "ready"}
    /\ poller' = [poller EXCEPT ![t] = NoPoller]
    /\ Transient
    /\ UNCHANGED <<waitVars, woken, ready, pollSet, irqVars>>

\* The event source changes what the probe returns; when it is no longer
\* WouldBlock the Pollable wakes its set.
event_source(r) ==
    /\ r # ready
    /\ ready' = r
    /\ IF IsWouldBlock(r)
       THEN UNCHANGED <<woken, pollSet>>
       ELSE /\ woken' = Wake(woken, pollSet)
            /\ pollSet' = {}
    /\ Transient
    /\ UNCHANGED <<waitVars, poller, irqVars>>

(***************************************************************************)
(* future/poll.rs: register_irq_waker and its irq_handler over POLL_IRQ.   *)
(***************************************************************************)

\* BTreeMap::remove(&irq) and Entry::Vacant(e).insert / PollSet::register.
BTreeMap_remove_nothing(m, n) == m
BTreeMap_remove(m, n) == [i \in DOMAIN m \ {n} |-> m[i]]
BTreeMap_get(m, n) == IF n \in DOMAIN m THEN m[n] ELSE {}
BTreeMap_register_fresh(m, n, w) ==
    [i \in DOMAIN m \cup {n} |-> IF i = n THEN {w} ELSE m[i]]
BTreeMap_register(m, n, w) ==
    [i \in DOMAIN m \cup {n} |-> IF i = n THEN BTreeMap_get(m, n) \cup {w} ELSE m[i]]

\* register_irq_waker(irq, waker), one critical section of POLL_IRQ: a vacant
\* entry has axhal::irq::register called and a new PollSet inserted; the waker
\* is registered in the entry's set.
register_irq_waker(irq, waker) ==
    /\ irq \notin DOMAIN POLL_IRQ => irqRegistered[irq] < MaxInstalls
    /\ irqRegistered' = [irqRegistered EXCEPT ![irq] =
                             IF irq \in DOMAIN POLL_IRQ THEN @ ELSE @ + 1]
    /\ POLL_IRQ' = BTreeMap_register(POLL_IRQ, irq, waker)
    /\ Transient
    /\ UNCHANGED <<waitVars, woken, pollVars, irqHandler>>

\* Interrupt irq is raised on CPU c, where the handler was installed:
\* irq_handler's `let s = POLL_IRQ.lock().remove(&irq)`.
irq_handler(c, irq) ==
    /\ irqRegistered[irq] > 0
    /\ irqHandler[c].pc = "idle"
    /\ POLL_IRQ' = BTreeMap_remove(POLL_IRQ, irq)
    /\ irqHandler' = [irqHandler EXCEPT ![c] =
                         IF irq \in DOMAIN POLL_IRQ
                         THEN [pc |-> "wake", irq |-> irq, s |-> POLL_IRQ[irq]]
                         ELSE IdleHandler]
    /\ Transient
    /\ UNCHANGED <<waitVars, woken, pollVars, irqRegistered>>

\* irq_handler's `if let Some(s) = s { s.wake() }`: the guard of
\* `POLL_IRQ.lock().remove(&irq)` is gone with the end of the `let`.
irq_handler_locks(wakers) == {}
irq_handler_wake(c) ==
    /\ irqHandler[c].pc = "wake"
    /\ woken' = Wake(woken, irqHandler[c].s)
    /\ irqHandler' = [irqHandler EXCEPT ![c] = IdleHandler]
    /\ notifyRet' = "none"
    /\ wakeLog' = <<>>
    /\ rtCall' = NoCall
    /\ timeoutCall' = NoTimeout
    /\ NoCallbacks
    /\ wakeHeld' = irq_handler_locks(irqHandler[c].s)
    /\ UNCHANGED <<waitVars, pollVars, POLL_IRQ, irqRegistered>>

\* A task whose waker was called runs again.
waker_runs(t) ==
    /\ woken[t]
    /\ woken' = [woken EXCEPT ![t] = FALSE]
    /\ Transient
    /\ UNCHANGED <<waitVars, pollVars, irqVars>>

(***************************************************************************)
(* The wait queue: tasks that wait, notifiers, and the condition.          *)
(***************************************************************************)
Next ==
    \/ set_condition
    \/ notify_one
    \/ notify_all
    \/ \E t \in Tasks : wait(t)
    \/ \E t \in Tasks : wait_poll(t)
    \/ \E t \in Tasks : wait_until(t)
    \/ \E t \in Tasks : wait_until_check1(t)
    \/ \E t \in Tasks : wait_until_listen(t)
    \/ \E t \in Tasks : wait_until_check2(t)
    \/ \E t \in Tasks : wait_until_await(t)
    \/ \E t \in Tasks : block_on_resume(t)
    \/ \E t \in Tasks : task_return(t)

Spec == Init /\ [][Next]_vars

\* The scheduler runs every task that can run: a task that is not blocked takes
\* its next step, and a blocked task whose waker was called is polled again.
TaskStep(t) ==
    \/ wait_poll(t)
    \/ wait_until_check1(t)
    \/ wait_until_listen(t)
    \/ wait_until_check2(t)
    \/ wait_until_await(t)
    \/ block_on_resume(t)

SpecLive == Init /\ [][Next]_vars /\ \A t \in Tasks : WF_vars(TaskStep(t))

(***************************************************************************)
(* The timeouts: listeners of the wait queue raced against the async timer *)
(* wheel by timeout_at and wait_timeout.                                   *)
(***************************************************************************)
NextTimeout ==
    \/ Tick
    \/ check_timer_events
    \/ notify_one
    \/ notify_all
    \/ \E t \in Tasks, dur \in Durations : wait_timeout(t, dur)
    \/ \E t \in Tasks, d \in {NoDeadline} \cup Times : timeout_at(t, d)
    \/ \E t \in Tasks, dur \in {NoDuration, TimeValue_MAX} \cup Durations :
          timeout(t, dur)
    \/ \E t \in Tasks : timeout_at_poll_op(t)
    \/ \E t \in Tasks : sleep_until(t)
    \/ \E t \in Tasks : TimerFuture_poll(t)
    \/ \E t \in Tasks : block_on_resume(t)
    \/ \E t \in Tasks : task_return(t)

SpecTimeout == Init /\ [][NextTimeout]_vars

(***************************************************************************)
(* wait_timeout_until: the condition, the notifiers and the timer wheel.   *)
(***************************************************************************)
NextUntil ==
    \/ Tick
    \/ check_timer_events
    \/ set_condition
    \/ notify_one
    \/ notify_all
    \/ \E t \in Tasks, dur \in Durations : wait_timeout_until(t, dur)
    \/ \E t \in Tasks : wait_timeout_until_check(t)
    \/ \E t \in Tasks : wait_timeout_until_listen(t)
    \/ \E t \in Tasks : timeout_at_poll_op(t)
    \/ \E t \in Tasks : sleep_until(t)
    \/ \E t \in Tasks : TimerFuture_poll(t)
    \/ \E t \in Tasks : block_on_resume(t)
    \/ \E t \in Tasks : task_return(t)

SpecUntil == Init /\ [][NextUntil]_vars

\* The scheduler runs every task that can run: a wait_timeout_until that is not
\* blocked takes its next step, and one whose waker was called is polled
\* again.  Nothing makes the clock advance or a notifier call.
UntilStep(t) ==
    \/ wait_timeout_until_check(t)
    \/ wait_timeout_until_listen(t)
    \/ timeout_at_poll_op(t)
    \/ sleep_until(t)
    \/ TimerFuture_poll(t)
    \/ block_on_resume(t)

SpecUntilLive ==
    Init /\ [][NextUntil]_vars /\ \A t \in Tasks : WF_vars(UntilStep(t))

(***************************************************************************)
(* The per-CPU timers: set_alarm_wakeup on any CPU for any task, and the   *)
(* timer interrupt's check_events.                                         *)
(***************************************************************************)
NextTimers ==
    \/ Tick
    \/ \E c \in Cpus, t \in Tasks, d \in Times : set_alarm_wakeup_fetch(c, t, d)
    \/ \E c \in Cpus : set_alarm_wakeup_set(c)
    \/ \E c \in Cpus : check_events(c)
    \/ \E c \in Cpus : check_events_loop(c)

SpecTimers == Init /\ [][NextTimers]_vars

\* The callbacks of the timer tick next to the alarms.
NextCallbacks ==
    \/ Tick
    \/ \E f \in 1..MaxCallbacks : register_timer_callback(f)
    \/ \E c \in Cpus, t \in Tasks, d \in Times :
           TIMER_TICKET_ID <= MaxWakeAlarms /\ set_alarm_wakeup_fetch(c, t, d)
    \/ \E c \in Cpus : set_alarm_wakeup_set(c)
    \/ \E c \in Cpus : check_events(c)
    \/ \E c \in Cpus : check_events_loop(c)

SpecCallbacks == Init /\ [][NextCallbacks]_vars

\* check_events runs with interrupts disabled on its CPU: once entered, its
\* loop keeps taking turns.
SpecTimersLive ==
    Init /\ [][NextTimers]_vars /\ \A c \in Cpus : WF_vars(check_events_loop(c))

(***************************************************************************)
(* A task with an alarm that also waits on the wait queue: the alarms of   *)
(* timers.rs together with WaitQueue::wait and the notifies.               *)
(***************************************************************************)
NextWake ==
    \/ Tick
    \/ \E c \in Cpus, t \in Tasks, d \in Times :
           TIMER_TICKET_ID <= MaxWakeAlarms /\ set_alarm_wakeup_fetch(c, t, d)
    \/ \E c \in Cpus : set_alarm_wakeup_set(c)
    \/ \E c \in Cpus : check_events(c)
    \/ \E c \in Cpus : check_events_loop(c)
    \/ \E t \in Tasks : wait(t)
    \/ \E t \in Tasks : wait_poll(t)
    \/ \E t \in Tasks : block_on_resume(t)
    \/ \E t \in Tasks : task_return(t)
    \/ notify_one
    \/ notify_all

SpecWake == Init /\ [][NextWake]_vars

(***************************************************************************)
(* The timer wheel under sleeps: the clock, the wake passes, and sleeps    *)
(* that are polled and dropped.                                            *)
(***************************************************************************)
NextWheel ==
    \/ Tick
    \/ check_timer_events
    \/ \E t \in Tasks, d \in Times : sleep_future(t, d)
    \/ \E t \in Tasks, dur \in Durations : sleep(t, dur)
    \/ \E t \in Tasks : sleep_add(t)
    \/ \E t \in Tasks, w \in Tasks : sleep_poll(t, w)
    \/ \E t \in Tasks : sleep_drop(t)
    \/ \E t \in Tasks : task_return(t)

SpecWheel == Init /\ [][NextWheel]_vars

(***************************************************************************)
(* Pollers on one event source.                                            *)
(***************************************************************************)
NextPoll ==
    \/ \E r \in ProbeResults : event_source(r)
    \/ \E t \in Tasks : Poller_new(t)
    \/ \E t \in Tasks, flag \in BOOLEAN : Poller_non_blocking(t, flag)
    \/ \E t \in Tasks : Poller_poll(t)
    \/ \E t \in Tasks : Poller_register(t)
    \/ \E t \in Tasks : Poller_retry(t)
    \/ \E t \in Tasks : Poller_drop(t)

SpecPoll == Init /\ [][NextPoll]_vars

(***************************************************************************)
(* The registry of IRQ wakers: registrations and interrupts.               *)
(***************************************************************************)
NextIrq ==
    \/ \E n \in Irqs, t \in Tasks : register_irq_waker(n, t)
    \/ \E c \in Cpus, n \in Irqs : irq_handler(c, n)
    \/ \E c \in Cpus : irq_handler_wake(c)
    \/ \E t \in Tasks : waker_runs(t)

SpecIrq == Init /\ [][NextIrq]_vars

(***************************************************************************)
(* TimerRuntime as an object: its methods in any order, with any key.      *)
(***************************************************************************)
NextRuntime ==
    \/ Tick
    \/ check_timer_events
    \/ \E d \in Times : rt_add(d)
    \/ \E k \in RtKeys, w \in Tasks : rt_update_waker(k, w)
    \/ \E k \in RtKeys : rt_is_completed(k)
    \/ \E k \in RtKeys : rt_cancel(k)

SpecRuntime == Init /\ [][NextRuntime]_vars

(***************************************************************************)
(* The properties.                                                         *)
(***************************************************************************)

\* C1: a fired per-CPU timer entry calls unblock_task exactly when the ticket it
\* recorded is the task's ticket at that time; an entry that was followed by a
\* whole second set_alarm_wakeup for its task never calls unblock_task.
C1_TicketGate ==
    lastFire.ticket_id # 0 =>
        /\ lastFire.unblock <=> lastFire.same
        /\ lastFire.stale => ~lastFire.unblock

\* C1 witness: an entry of a task fired after a second alarm was set for that
\* task, and the task was not unblocked.
C1_Witness == lastFire.ticket_id # 0 /\ lastFire.stale /\ ~lastFire.unblock

\* C2 as specified: an entry whose task a wait-queue notify woke before the
\* deadline, with no later set_alarm_wakeup for the task, does not call
\* unblock_task when it fires.
C2_NoUnblockAfterNotify ==
    (lastFire.ticket_id # 0 /\ lastFire.notified /\ ~lastFire.stale /\ ~lastFire.racing)
        => ~lastFire.unblock

\* C3: no missed wakeup in wait_until.  Once the condition is true, a
\* wait_until that has not suspended yet (it is at the first check, about to
\* register, or at the check after registering) returns, and so does one whose
\* listener a notify has reached, unless the condition turns false again; and
\* a notify reaches the listener: notify_all every registered one, notify_one
\* the one that waits alone, calling the waker of a suspended task.
C3_NotSuspended(t) ==
    op[t] = "wait_until" /\ pc[t] \in {"wu_check1", "wu_listen", "wu_check2"}
C3_Reached(t) == op[t] = "wait_until" /\ lstate[t] = "Notified"
C3_NotifyLands ==
    notifyRet' # "none" =>
        \A t \in Tasks :
            (lstate[t] \in {"Created", "Task"}
                /\ (notifyRet' = "unit" \/ listeners = <<t>>))
            => /\ lstate'[t] = "Notified"
               /\ lstate[t] = "Task" => woken'[t]
C3_NoMissedWakeup ==
    /\ \A t \in Tasks :
          (cond /\ (C3_NotSuspended(t) \/ C3_Reached(t)))
              ~> (pc[t] = "done" \/ ~cond)
    /\ [][C3_NotifyLands]_vars
\* The notify raced with the registration: it came after the first check found
\* the condition false and before the second check.
C3_Witness ==
    \E t \in Tasks :
        /\ op[t] = "wait_until" /\ pc[t] = "wu_check2"
        /\ lastCond[t] = "false" /\ cond
        /\ notifyRet # "none"

\* C4: a wait_until whose first evaluation of the condition was true has
\* returned without a listener and without suspending; and a wait_until that
\* has returned read the condition true at its last evaluation.
C4_WaitUntil ==
    \A t \in Tasks :
        op[t] = "wait_until" =>
            /\ firstCond[t] = "true" => (pc[t] = "done" /\ lstate[t] = "None")
            /\ pc[t] = "done" => lastCond[t] = "true"
\* One call returned at once, another returned after it had waited.
C4_Witness ==
    \E t, u \in Tasks :
        /\ op[t] = "wait_until" /\ pc[t] = "done" /\ firstCond[t] = "true"
        /\ op[u] = "wait_until" /\ pc[u] = "done" /\ firstCond[u] = "false"

\* C5: a timeout_at with a deadline returns Ok exactly when the poll of its
\* operation returned Ready, and Err(Elapsed) only at or after the deadline;
\* while it is suspended its wheel entry carries the deadline and either holds
\* the task's waker or is Completed with the waker called, and the poll that
\* finds the operation pending and the entry Completed returns Err(Elapsed).
C5_Timed(t) == op[t] \in {"timeout_at", "wait_timeout"} /\ tdl[t] # NoDeadline
C5_State ==
    \A t \in Tasks :
        C5_Timed(t) =>
            /\ tres[t] = "Ok" <=> opReady[t]
            /\ tres[t] = "Elapsed" => now >= tdl[t]
            /\ pc[t] = "done" => tres[t] \in {"Ok", "Elapsed"}
            /\ pc[t] = "blocked" =>
                  \E e \in Lookup(TIMER_RUNTIME, tkey[t]) :
                      /\ e.deadline = tdl[t]
                      /\ \/ e.state = "Active" /\ e.waker = t
                         \/ e.state = "Completed" /\ woken[t]
C5_Step ==
    \A t \in Tasks :
        (C5_Timed(t) /\ pc[t] = "ta_timer" /\ pc'[t] # pc[t]
            /\ is_completed(TIMER_RUNTIME, tkey[t]))
        => tres'[t] = "Elapsed"
C6_Untimed(t) == op[t] = "timeout_at" /\ tdl[t] = NoDeadline
C6_State ==
    \A t \in Tasks :
        C6_Untimed(t) =>
            /\ tres[t] # "Elapsed"
            /\ tres[t] = "Ok" <=> opReady[t]
            /\ pc[t] = "done" <=> tres[t] = "Ok"
            /\ pc[t] \in {"ta_op", "blocked", "done"}
            /\ sleepSt[t] = "none" /\ tkey[t] = NoKey
C6_Step ==
    \A t \in Tasks :
        ((C6_Untimed(t) \/ C6_Untimed(t)') /\ pc'[t] # pc[t])
            => TIMER_RUNTIME' = TIMER_RUNTIME
C6_NoDeadline == []C6_State /\ [][C6_Step]_vars
\* It returned Ok after time had passed.
C6_Witness ==
    \E t \in Tasks : C6_Untimed(t) /\ pc[t] = "done" /\ tres[t] = "Ok" /\ now > 0

\* C7 as specified: a notify_one call notifies at most one listener, returns
\* true exactly when a listener was waiting (registered and not yet notified)
\* when it was called, and with two listeners waiting notifies exactly one.
C7_Waiting == {t \in Tasks : lstate[t] \in {"Created", "Task"}}
C7_NotifyOne ==
    [][notifyRet' \in {"true", "false"} =>
          /\ Cardinality(Notified(lstate') \ Notified(lstate)) <= 1
          /\ notifyRet' = "true" <=> C7_Waiting # {}
          /\ Cardinality(C7_Waiting) = 2
                => Cardinality(Notified(lstate') \ Notified(lstate)) = 1]_vars

\* C8 as specified: a listener is notified only in the step of a notify call that
\* finds it registered, so none that registers after a notify_all is released
\* without a further call.
C8_ReleasedOnlyByACall ==
    [][\A t \in Tasks :
          (lstate[t] # "Notified" /\ lstate'[t] = "Notified")
              => (notifyRet' # "none" /\ lstate[t] # "None")]_vars
\* C8: notify_all notifies every listener registered when it is called, calling
\* the wakers stored, and no task that is not registered; a listener that
\* registers later starts not notified, and is notified only by a later notify
\* call or when a notified listener is dropped and hands its notification on.
C8_NotifyAllStep ==
    notifyRet' = "unit" =>
        \A t \in Tasks :
            /\ lstate[t] # "None" =>
                  (lstate'[t] = "Notified" /\ (lstate[t] = "Task" => woken'[t]))
            /\ lstate[t] = "None" => lstate'[t] = "None"
C8_LaterListener ==
    \A t \in Tasks :
        /\ lstate[t] = "None" => lstate'[t] \in {"None", "Created"}
        /\ (lstate[t] # "Notified" /\ lstate'[t] = "Notified") =>
              \/ notifyRet' # "none"
              \/ \E u \in Tasks \ {t} :
                    lstate[u] = "Notified" /\ lstate'[u] = "None"
C8_NotifyAll == [][C8_NotifyAllStep /\ C8_LaterListener]_vars
\* notify_all has just notified two listeners.
C8_Witness == notifyRet = "unit" /\ Cardinality(Notified(lstate)) >= 2

\* C9 as specified: wait_timeout returns true exactly when its timeout_at ended
\* with Err(Elapsed), and false when a notify made the listener ready.
C9_TrueMeansTimedOut ==
    \A t \in Tasks :
        (op[t] = "wait_timeout" /\ pc[t] = "done")
            => (ret[t] = "true" <=> tres[t] = "Elapsed")

\* C10: every timeout_at of one wait_timeout_until call, and every timer key it
\* holds, carries the deadline computed at entry, which no step of the call
\* changes; the call returns true only at or after that deadline with the
\* condition read false, and the head of its loop, run at or after the
\* deadline, returns: true when the condition is false.
C10_Until(t) == op[t] = "wait_timeout_until"
C10_State ==
    \A t \in Tasks :
        C10_Until(t) =>
            /\ pc[t] \in {"ta_op", "ta_sleep", "ta_timer", "blocked"}
                  => tdl[t] = deadline[t]
            /\ tkey[t] # NoKey => tkey[t].deadline = deadline[t]
            /\ ret[t] = "true" => (now >= deadline[t] /\ lastCond[t] = "false")
C10_Step ==
    \A t \in Tasks :
        /\ (C10_Until(t) /\ C10_Until(t)') => deadline'[t] = deadline[t]
        /\ (C10_Until(t) /\ pc[t] = "wtu_check" /\ pc'[t] # pc[t]
               /\ now >= deadline[t])
           => (pc'[t] = "done" /\ ret'[t] = Bool(~cond))
C10_OneDeadline == []C10_State /\ [][C10_Step]_vars
\* A notify ended the last timeout_at with the condition false, and the call
\* returned true at the deadline.
C10_Witness ==
    \E t \in Tasks :
        C10_Until(t) /\ pc[t] = "done" /\ ret[t] = "true" /\ tres[t] = "Ok"

(***************************************************************************)
(* C11: in one wake pass the entries are completed, and their wakers       *)
(* called, in strictly ascending order of (deadline, key): a shorter       *)
(* deadline comes before a longer one whatever the order they were added   *)
(* in, and equal deadlines come in the order they were added.              *)
(***************************************************************************)
C11_WakeOrder ==
    \A i, j \in 1..Len(wakeLog) :
        i < j => \/ wakeLog[i].deadline < wakeLog[j].deadline
                 \/ /\ wakeLog[i].deadline = wakeLog[j].deadline
                    /\ wakeLog[i].key < wakeLog[j].key

\* A pass has called two wakers, the first one of the entry added last.
C11_Witness ==
    /\ Len(wakeLog) = 2
    /\ wakeLog[1].waker # NoTask
    /\ wakeLog[2].waker # NoTask
    /\ wakeLog[1].key > wakeLog[2].key

(***************************************************************************)
(* C12: once cancel(key) has been called, the wheel holds no entry under   *)
(* that key any more, so that no later is_completed(key) reports true, and *)
(* no later wake pass completes the entry or calls the waker stored for    *)
(* it, however the cancel and the passes interleave.                       *)
(***************************************************************************)
C12_AfterCancel ==
    \A k \in cancelled :
        /\ \A e \in TIMER_RUNTIME.wheel : e.key # k
        /\ \A i \in 1..Len(wakeLog) : wakeLog[i].key # k

\* A sleep was dropped before it ended, and a wake pass at or after its
\* deadline has called the waker of another entry.
C12_Witness ==
    /\ cancelled # {}
    /\ LogCalled(wakeLog) # {}
    /\ \E t \in Tasks : /\ pc[t] = "done"
                        /\ op[t] = "sleep_until"
                        /\ ret[t] = "none"
                        /\ tdl[t] <= now
                        /\ tdl[t] > 0

(***************************************************************************)
(* C13: Poller::poll returns Pending only when it has registered the waker *)
(* with the event source in that same poll and the probe it called after   *)
(* the registration returned WouldBlock.  Readiness that arrives between   *)
(* the first probe and the registration is seen by the retry, which        *)
(* returns Ready; readiness that arrives after the registration finds the  *)
(* waker registered and calls it.                                          *)
(***************************************************************************)
C13_State ==
    \A t \in Tasks :
        /\ poller[t].result = "Pending" =>
              /\ poller[t].registered
              /\ poller[t].probes = 2
              /\ poller[t].second = WouldBlock
        /\ poller[t].pc \in {"retry", "pending"} => t \in pollSet \/ woken[t]
        /\ poller[t].pc = "pending" /\ ready # WouldBlock => woken[t]
C13_Step ==
    \A t \in Tasks :
        poller[t].pc = "retry" /\ poller'[t].pc # "retry" /\ ready # WouldBlock
            => poller'[t].pc = "ready" /\ poller'[t].result = ready
C13_PendingAfterRetry == []C13_State /\ [][C13_Step]_vars

\* One Poller was pending when the source became ready and its waker was
\* called; another had probed before that and registered after it, and its
\* retry returned Ready.
C13_Witness ==
    \E t, u \in Tasks :
        /\ poller[t].pc = "ready"
        /\ poller[t].first = WouldBlock
        /\ poller[t].second \in OkResults
        /\ t \in pollSet
        /\ poller[u].pc = "pending"
        /\ woken[u]

(***************************************************************************)
(* C14: when the first probe returns Ok(v) or an error other than          *)
(* WouldBlock, poll returns Ready with that very value or error, registers *)
(* nothing with the event source and has called the probe once; an error   *)
(* other than WouldBlock from the retry is returned as it is.              *)
(***************************************************************************)
C14_State ==
    \A t \in Tasks :
        poller[t].pc = "ready" =>
            /\ poller[t].first # WouldBlock =>
                  /\ poller[t].result = poller[t].first
                  /\ ~poller[t].registered
                  /\ poller[t].probes = 1
            /\ poller[t].second \in ErrResults \ {WouldBlock} =>
                  poller[t].result = poller[t].second
C14_Step ==
    \A t \in Tasks :
        poller[t].pc \in {"new", "pending"} /\ poller'[t].pc = "ready"
            => pollSet' = pollSet
C14_FastPath == []C14_State /\ [][C14_Step]_vars

\* One poll has returned the error of its first probe, another the error of
\* its retry.
C14_Witness ==
    \E t, u \in Tasks :
        /\ poller[t].pc = "ready"
        /\ poller[t].first \in ErrResults
        /\ poller[u].pc = "ready"
        /\ poller[u].second \in ErrResults

(***************************************************************************)
(* C15: poll returns Ready(Err(WouldBlock)) exactly when non_blocking is   *)
(* set and the first probe returned WouldBlock, and it has then registered *)
(* nothing; with non_blocking unset WouldBlock is never returned: the      *)
(* retry's WouldBlock makes the poll Pending.                              *)
(***************************************************************************)
C15_State ==
    \A t \in Tasks :
        /\ poller[t].pc = "ready" =>
              /\ poller[t].result = WouldBlock
                    <=> (poller[t].non_blocking /\ poller[t].first = WouldBlock)
              /\ poller[t].result = WouldBlock =>
                    ~poller[t].registered /\ poller[t].probes = 1
        /\ ~poller[t].non_blocking =>
              /\ poller[t].result # WouldBlock
              /\ poller[t].second = WouldBlock => poller[t].result = "Pending"
        /\ poller[t].non_blocking => poller[t].pc \notin {"register", "retry", "pending"}
C15_Step ==
    \A t \in Tasks :
        poller'[t].pc = "ready" /\ poller'[t].result = WouldBlock
            /\ poller[t].pc # "ready"
            => pollSet' = pollSet
C15_NonBlocking == []C15_State /\ [][C15_Step]_vars

\* A non-blocking poll has returned WouldBlock; a blocking one is pending.
C15_Witness ==
    \E t, u \in Tasks :
        /\ poller[t].pc = "ready"
        /\ poller[t].result = WouldBlock
        /\ poller[u].pc = "pending"
        /\ ~poller[u].non_blocking
        /\ poller[u].second = WouldBlock

(***************************************************************************)
(* C16: when interrupt n fires, irq_handler takes the whole set of wakers  *)
(* registered for n out of POLL_IRQ in one step, after which n has no      *)
(* entry, and then calls every waker of that set.                          *)
(***************************************************************************)
C16_Step ==
    \A c \in Cpus :
        /\ irqHandler[c].pc = "idle" /\ irqHandler'[c].pc = "wake" =>
              /\ irqHandler'[c].irq \in DOMAIN POLL_IRQ
              /\ irqHandler'[c].s = POLL_IRQ[irqHandler'[c].irq]
              /\ irqHandler'[c].irq \notin DOMAIN POLL_IRQ'
        /\ irqHandler[c].pc = "wake" /\ irqHandler'[c].pc = "idle" =>
              \A t \in irqHandler[c].s : woken'[t]
C16_WakesAll == [][C16_Step]_vars

\* The handler of IRQ 1 was installed once and nothing else; every task
\* registered for it, and one firing has woken them all.
C16_Witness ==
    /\ irqRegistered = [n \in Irqs |-> IF n = 1 THEN 1 ELSE 0]
    /\ DOMAIN POLL_IRQ = {}
    /\ \A c \in Cpus : irqHandler[c].pc = "idle"
    /\ \A t \in Tasks : woken[t]

(***************************************************************************)
(* C17 as specified: axhal::irq::register(n, irq_handler) is called at     *)
(* most once for every IRQ number n, whatever the registrations and the    *)
(* firings, registrations after a firing of n included.                    *)
(***************************************************************************)
C17_InstalledOnce == \A n \in Irqs : irqRegistered[n] <= 1

(***************************************************************************)
(* C18: the drop of a TimerFuture removes its wheel entry in the same      *)
(* step; the wheel never holds an entry whose TimerFuture is gone; and     *)
(* once timeout_at has returned, with either result, the wheel holds no    *)
(* entry its call created.                                                 *)
(***************************************************************************)
\* The TimerFuture of task t exists and carries the key of entry e.
C18_Owns(t, e) ==
    /\ sleepSt[t] = "timer"
    /\ tkey[t] = [deadline |-> e.deadline, key |-> e.key]
C18_State ==
    /\ \A e \in TIMER_RUNTIME.wheel : \E t \in Tasks : C18_Owns(t, e)
    /\ \A t \in Tasks : pc[t] \in {"idle", "done"} =>
          /\ tkey[t] = NoKey
          /\ sleepSt[t] # "timer"
C18_Step ==
    \A t \in Tasks :
        tkey[t] # NoKey /\ tkey'[t] = NoKey
            => \A e \in TIMER_RUNTIME'.wheel : e.key # tkey[t].key
C18_CancelOnDrop == []C18_State /\ [][C18_Step]_vars

\* timeout_at has returned Ok before its deadline, a TimerFuture has been
\* dropped, and the wheel is empty.
C18_Witness ==
    /\ cancelled # {}
    /\ TIMER_RUNTIME.wheel = {}
    /\ \E t \in Tasks : /\ pc[t] = "done"
                        /\ op[t] = "timeout_at"
                        /\ tres[t] = "Ok"
                        /\ tdl[t] > now

(***************************************************************************)
(* C19: over the life of a wheel entry a waker is called for it at most    *)
(* once; wake calls a waker only for an entry whose deadline is not after  *)
(* the time of the pass, and the waker it calls is the one the last poll   *)
(* of the entry's TimerFuture stored; a pass over an entry that is         *)
(* Completed calls nothing for it.                                         *)
(***************************************************************************)
C19_State ==
    /\ \A k \in Keys : invoked[k] <= 1
    /\ \A i \in 1..Len(wakeLog) :
          /\ wakeLog[i].deadline <= now
          /\ wakeLog[i].waker # NoTask => wakeLog[i].waker = stored[wakeLog[i].key]
C19_Step ==
    \A e \in TIMER_RUNTIME.wheel :
        e.state = "Completed" => e.key \notin LogCalled(wakeLog')
C19_ResumesOnce == []C19_State /\ [][C19_Step]_vars

\* A wake pass has gone over an entry whose waker an earlier pass had called.
C19_Witness ==
    \E i \in 1..Len(wakeLog) : /\ wakeLog[i].waker = NoTask
                               /\ invoked[wakeLog[i].key] = 1

(***************************************************************************)
(* C20: add(deadline) with the deadline not after the current time returns *)
(* None and leaves the wheel and the counter as they were; otherwise it    *)
(* inserts exactly one entry, Active(None), under the key made of the      *)
(* deadline and the counter's value, adds one to the counter and returns   *)
(* that key.  The keys handed out carry strictly growing numbers: every    *)
(* key in use is below the counter, no two are equal, and none is a key    *)
(* that was cancelled.                                                     *)
(***************************************************************************)
\* The add of the sleep of t returns in this step: None, or Some(key).
C20_AddNone(t) == pc[t] = "sl_add" /\ pc'[t] = "done" /\ ret'[t] = "unit"
C20_AddSome(t) == pc[t] = "sl_add" /\ pc'[t] = "sl_timer"
C20_NewEntry(t) == [deadline |-> tdl[t], key |-> TIMER_RUNTIME.key,
                    state |-> "Active", waker |-> NoTask]
C20_Step ==
    /\ \A t \in Tasks :
          /\ C20_AddNone(t) \/ C20_AddSome(t)
                => (C20_AddNone(t) <=> tdl[t] <= now)
          /\ C20_AddNone(t) => TIMER_RUNTIME' = TIMER_RUNTIME
          /\ C20_AddSome(t) =>
                /\ \A e \in TIMER_RUNTIME.wheel : e.key # TIMER_RUNTIME.key
                /\ TIMER_RUNTIME'.wheel = TIMER_RUNTIME.wheel \cup {C20_NewEntry(t)}
                /\ TIMER_RUNTIME'.key = TIMER_RUNTIME.key + 1
                /\ tkey'[t] = [deadline |-> tdl[t], key |-> TIMER_RUNTIME.key]
    /\ TIMER_RUNTIME'.key >= TIMER_RUNTIME.key
C20_State ==
    /\ \A e \in TIMER_RUNTIME.wheel : e.key < TIMER_RUNTIME.key
    /\ \A e, f \in TIMER_RUNTIME.wheel : e.key = f.key => e = f
    /\ \A t \in Tasks : tkey[t] # NoKey =>
          /\ tkey[t].key < TIMER_RUNTIME.key
          /\ tkey[t].key \notin cancelled
          /\ \A u \in Tasks \ {t} : tkey[u] # NoKey => tkey[u].key # tkey[t].key
    /\ \A k \in cancelled : k < TIMER_RUNTIME.key
C20_Add == []C20_State /\ [][C20_Step]_vars

\* One sleep has been given the first key and waits to be polled; the add of
\* another sleep has returned None.
C20_Witness ==
    /\ TIMER_RUNTIME.key = 1
    /\ \E t, u \in Tasks :
          /\ t # u
          /\ pc[t] = "sl_timer"
          /\ tkey[t].key = 0
          /\ Lookup(TIMER_RUNTIME, tkey[t]) # {}
          /\ pc[u] = "done" /\ ret[u] = "unit" /\ op[u] = "sleep_until"

(***************************************************************************)
(* C21 as specified: update_waker(key, waker) replaces the stored waker of *)
(* the entry under key when that entry is Active, and leaves the wheel as  *)
(* it was when the entry is Completed or the key is not in the wheel.      *)
(***************************************************************************)
C21_Step ==
    rtCall'.fn = "update_waker" =>
        IF \E e \in Lookup(TIMER_RUNTIME, rtCall'.key) : e.state = "Active"
        THEN TIMER_RUNTIME'.wheel =
                (TIMER_RUNTIME.wheel \ Lookup(TIMER_RUNTIME, rtCall'.key))
                \cup {[deadline |-> rtCall'.key.deadline, key |-> rtCall'.key.key,
                       state |-> "Active", waker |-> rtCall'.waker]}
        ELSE TIMER_RUNTIME' = TIMER_RUNTIME
C21_UpdateWaker == [][C21_Step]_vars

(***************************************************************************)
(* C22: is_completed(key) returns true exactly when the wheel holds an     *)
(* entry under key that is Completed, and then removes that entry, so that *)
(* a second is_completed(key) returns false; when the entry is Active or   *)
(* the key is not in the wheel it returns false and leaves the wheel as it *)
(* was.                                                                    *)
(***************************************************************************)
C22_Step ==
    rtCall'.fn = "is_completed" =>
        /\ rtCall'.ret = "true"
              <=> \E e \in Lookup(TIMER_RUNTIME, rtCall'.key) : e.state = "Completed"
        /\ rtCall'.ret = "true" =>
              /\ TIMER_RUNTIME'.wheel =
                    TIMER_RUNTIME.wheel \ Lookup(TIMER_RUNTIME, rtCall'.key)
              /\ TIMER_RUNTIME'.key = TIMER_RUNTIME.key
        /\ rtCall'.ret = "false" => TIMER_RUNTIME' = TIMER_RUNTIME
C22_State ==
    /\ rtCall.fn = "is_completed" /\ rtCall.ret = "true"
          => ~is_completed(TIMER_RUNTIME, rtCall.key)
    /\ \A k \in RtKeys : ~is_completed(TimerRuntime_is_completed(TIMER_RUNTIME, k), k)
C22_IsCompleted == []C22_State /\ [][C22_Step]_vars

\* is_completed has returned true while another entry stays in the wheel.
C22_Witness ==
    /\ rtCall.fn = "is_completed"
    /\ rtCall.ret = "true"
    /\ TIMER_RUNTIME.wheel # {}

(***************************************************************************)
(* C23: cancel(key) removes the entry under key, Active or Completed, and  *)
(* changes nothing else: every other entry keeps its key, state and        *)
(* waker, and the counter its value; with no entry under key it changes    *)
(* nothing, and cancel(key) twice leaves what cancel(key) once leaves.     *)
(***************************************************************************)
C23_Step ==
    rtCall'.fn = "cancel" =>
        /\ TIMER_RUNTIME'.wheel =
              {e \in TIMER_RUNTIME.wheel :
                  e.deadline # rtCall'.key.deadline \/ e.key # rtCall'.key.key}
        /\ TIMER_RUNTIME'.key = TIMER_RUNTIME.key
        /\ Lookup(TIMER_RUNTIME, rtCall'.key) = {} => TIMER_RUNTIME' = TIMER_RUNTIME
C23_State ==
    \A k \in RtKeys :
        /\ Lookup(TimerRuntime_cancel(TIMER_RUNTIME, k), k) = {}
        /\ TimerRuntime_cancel(TimerRuntime_cancel(TIMER_RUNTIME, k), k)
              = TimerRuntime_cancel(TIMER_RUNTIME, k)
C23_Cancel == []C23_State /\ [][C23_Step]_vars

\* cancel has removed one of two entries; the other one still holds its waker.
C23_Witness ==
    /\ rtCall.fn = "cancel"
    /\ TIMER_RUNTIME.key = 2
    /\ Lookup(TIMER_RUNTIME, rtCall.key) = {}
    /\ \E e \in TIMER_RUNTIME.wheel : e.state = "Active" /\ e.waker # NoTask

(***************************************************************************)
(* C24: the drain loop of check_events ends.  Every turn that fires takes  *)
(* one entry of the CPU's list whose deadline is not after the time read,  *)
(* and removes it, so that no entry fires twice; the loop stops at the     *)
(* first turn that finds no such entry; an entry whose deadline is after   *)
(* the time read stays in the list, not fired.                             *)
(***************************************************************************)
\* A turn of some CPU's loop fires: lastFire changes (tickets are not reused).
C24_Fires == lastFire' # lastFire
C24_Fired(e) == e.ticket_id = lastFire'.ticket_id /\ e.task = lastFire'.task
C24_Step ==
    /\ C24_Fires =>
          \E c \in Cpus : \E e \in TIMER_LIST[c] :
              /\ draining[c]
              /\ C24_Fired(e)
              /\ e.deadline <= now
              /\ TIMER_LIST' = [TIMER_LIST EXCEPT ![c] = @ \ {e}]
              /\ \A d \in Cpus : \A f \in TIMER_LIST'[d] : ~C24_Fired(f)
    /\ \A c \in Cpus :
          /\ draining[c] /\ ~draining'[c] =>
                /\ \A e \in TIMER_LIST[c] : e.deadline > now
                /\ UNCHANGED <<TIMER_LIST, lastFire>>
          /\ draining[c] /\ (\E e \in TIMER_LIST[c] : e.deadline <= now)
                => draining'[c]
          /\ \A e \in TIMER_LIST[c] : e.deadline > now => e \in TIMER_LIST'[c]
C24_Ends == \A c \in Cpus : draining[c] ~> ~draining[c]
C24_DrainLoop == [][C24_Step]_vars /\ C24_Ends

\* A drain loop has fired an entry and stopped with a later entry left in
\* the list of its CPU.
C24_Witness ==
    \E c \in Cpus :
        /\ ~draining[c]
        /\ lastFire # NoFire
        /\ \E e \in TIMER_LIST[c] : e.deadline > now /\ e.ticket_id > lastFire.ticket_id
        /\ \A d \in Cpus \ {c} : TIMER_LIST[d] = {} /\ ~draining[d]

(* C25: every call of check_events calls every registered callback exactly
   once, in the order of registration, before it drains any alarm, whether
   the wheel of its CPU is empty or not; a registered callback is never
   removed. *)
C25_Entered(c) == ~draining[c] /\ draining'[c]
C25_IsPrefix(s, t) == Len(s) <= Len(t) /\ SubSeq(t, 1, Len(s)) = s
C25_Step ==
    /\ \A c \in Cpus :
          C25_Entered(c) =>
              /\ Len(cbLog') = Len(TIMER_CALLBACKS)
              /\ \A i \in 1..Len(TIMER_CALLBACKS) :
                     cbLog'[i].callback = TIMER_CALLBACKS[i]
              /\ TIMER_LIST' = TIMER_LIST
              /\ lastFire' = lastFire
    /\ \A c \in Cpus :
          (\E e \in TIMER_LIST[c] : e \notin TIMER_LIST'[c]) => draining[c]
    /\ (\A c \in Cpus : ~C25_Entered(c)) => cbLog' = <<>>
    /\ C25_IsPrefix(TIMER_CALLBACKS, TIMER_CALLBACKS')
C25_Callbacks == [][C25_Step]_vars
C25_Witness ==
    /\ Len(cbLog) = 2
    /\ cbLog[1].callback = 2
    /\ cbLog[2].callback = 1
    /\ \E c \in Cpus : draining[c] /\ \E e \in TIMER_LIST[c] : e.deadline <= now
    /\ \E c \in Cpus : draining[c] /\ TIMER_LIST[c] = {}

(* C26 as specified: the ticket stored on a task never decreases, and every
   set_alarm_wakeup for the task leaves it strictly greater than it was,
   also when the calls run at the same time on different CPUs. *)
C26_Step ==
    /\ \A t \in Tasks : timer_ticket'[t] >= timer_ticket[t]
    /\ \A c \in Cpus :
          (alarm[c].pc = "set" /\ alarm'[c].pc = "idle") =>
              timer_ticket'[alarm[c].task] > timer_ticket[alarm[c].task]
C26_TicketIncreases == [][C26_Step]_vars

(* C27: the tickets set_alarm_wakeup hands out are unique over all tasks and
   CPUs, so at most one pending entry, over the wheels of all CPUs, carries
   the current ticket of its task; and a registration for a task leaves every
   entry that was already pending for the task invalid. *)
C27_Entries == {<<c, e>> : c \in Cpus, e \in UNION {TIMER_LIST[d] : d \in Cpus}}
C27_Pending == {p \in C27_Entries : p[2] \in TIMER_LIST[p[1]]}
C27_Issued == {alarm[c].ticket_id : c \in {d \in Cpus : alarm[d].pc = "set"}}
C27_State ==
    /\ \A p, q \in C27_Pending : p[2].ticket_id = q[2].ticket_id => p = q
    /\ \A p \in C27_Pending :
          /\ p[2].ticket_id < TIMER_TICKET_ID
          /\ p[2].ticket_id \notin C27_Issued
    /\ \A c, d \in Cpus :
          (alarm[c].pc = "set" /\ alarm[d].pc = "set" /\ c # d) =>
              alarm[c].ticket_id # alarm[d].ticket_id
    /\ \A t \in Tasks :
          Cardinality({p \in C27_Pending :
                          p[2].task = t /\ TicketMatches(p[2])}) <= 1
C27_Step ==
    \A c \in Cpus :
        (alarm[c].pc = "set" /\ alarm'[c].pc = "idle") =>
            \A p \in C27_Pending :
                p[2].task = alarm[c].task =>
                    /\ p[2] \in TIMER_LIST'[p[1]]
                    /\ p[2].ticket_id # timer_ticket'[alarm[c].task]
C27_OneAuthoritative == []C27_State /\ [][C27_Step]_vars
C27_Witness ==
    \E t \in Tasks :
        /\ Cardinality({p \in C27_Pending : p[2].task = t}) >= 2
        /\ \E p \in C27_Pending : p[2].task = t /\ TicketMatches(p[2])
        /\ \E p, q \in C27_Pending :
              /\ p[2].task = t /\ q[2].task = t
              /\ p[1] # q[1]
              /\ ~TicketMatches(q[2])

(* C28: the wheels are per CPU: set_alarm_wakeup on CPU c inserts its entry
   into the wheel of c only, and check_events on CPU c fires and removes
   entries of the wheel of c only; the wheel of every other CPU stays as it
   is. *)
C28_Others(c) == \A d \in Cpus \ {c} : TIMER_LIST'[d] = TIMER_LIST[d]
C28_Inserts(c) == alarm[c].pc = "set" /\ alarm'[c].pc = "idle"
C28_Step ==
    /\ \A c \in Cpus :
          C28_Inserts(c) =>
              /\ TIMER_LIST'[c] = TIMER_LIST[c] \cup
                     {TaskWakeupEvent(alarm[c].deadline, alarm[c].ticket_id,
                                      alarm[c].task)}
              /\ TIMER_LIST'[c] # TIMER_LIST[c]
              /\ C28_Others(c)
    /\ lastFire' # lastFire =>
          \E c \in Cpus :
              /\ draining[c]
              /\ \E e \in TIMER_LIST[c] :
                    /\ e.ticket_id = lastFire'.ticket_id
                    /\ e.task = lastFire'.task
                    /\ TIMER_LIST'[c] = TIMER_LIST[c] \ {e}
              /\ C28_Others(c)
    /\ \A c \in Cpus :
          TIMER_LIST'[c] # TIMER_LIST[c] =>
              \/ C28_Inserts(c)
              \/ draining[c] /\ lastFire' # lastFire
C28_PerCpu == [][C28_Step]_vars
C28_Witness ==
    \E c, d \in Cpus :
        /\ c # d
        /\ draining[c] /\ ~draining[d]
        /\ lastFire.ticket_id > 0
        /\ \E e \in TIMER_LIST[d] :
              e.deadline <= now /\ e.ticket_id < lastFire.ticket_id
        /\ alarm[d].pc = "idle"

(* C29 as specified: no waker is called while the lock of the structure it
   was stored in is held: the wake pass of the timer wheel calls wakers only
   after TIMER_RUNTIME is released, and the interrupt handler only after
   POLL_IRQ is released. *)
C29_WakeAfterRelease ==
    /\ "TIMER_RUNTIME" \notin wakeHeld
    /\ "POLL_IRQ" \notin wakeHeld

(* C30: a sleep whose entry a wake pass completes while it holds no waker,
   before the first poll of its TimerFuture, is not lost: the next poll finds
   the entry Completed and returns Ready.  No TimerFuture is left Pending
   with a Completed entry unless the waker it had stored has been called. *)
C30_Completed(rt, k) == \E e \in Lookup(rt, k) : e.state = "Completed"
C30_Sleeping(t) == pc[t] \in {"sl_timer", "sl_pending"}
C30_Step ==
    \A t \in Tasks :
        (C30_Sleeping(t) /\ C30_Completed(TIMER_RUNTIME, tkey[t])) =>
            \/ /\ pc'[t] = pc[t]
               /\ tkey'[t] = tkey[t]
               /\ C30_Completed(TIMER_RUNTIME', tkey[t])
               /\ stored'[tkey[t].key] = stored[tkey[t].key]
            \/ /\ pc'[t] = "done"
               /\ tkey'[t] = NoKey
               /\ Lookup(TIMER_RUNTIME', tkey[t]) = {}
C30_State ==
    \A t \in Tasks :
        /\ pc[t] = "sl_timer" => stored[tkey[t].key] = NoTask
        /\ (pc[t] = "sl_pending" /\ C30_Completed(TIMER_RUNTIME, tkey[t])) =>
              /\ stored[tkey[t].key] # NoTask
              /\ invoked[tkey[t].key] >= 1
C30_NotLost == []C30_State /\ [][C30_Step]_vars

\* A wake pass has just completed the entry of a sleep that was never polled;
\* another sleep has ended.
C30_Witness ==
    \E t, u \in Tasks :
        /\ t # u
        /\ pc[t] = "sl_timer"
        /\ C30_Completed(TIMER_RUNTIME, tkey[t])
        /\ \E i \in 1..Len(wakeLog) :
              wakeLog[i].key = tkey[t].key /\ wakeLog[i].waker = NoTask
        /\ pc[u] = "done" /\ ret[u] = "unit"
        /\ cancelled # {}

(* C31: timeout_at prefers the operation on a tie.  A poll that finds the
   operation ready returns Ok also when the deadline has passed, even when it
   had passed before timeout_at was called; Err(Elapsed) is returned only in
   a poll that polled the operation first and found it pending. *)
C31_Timed(t) == op[t] \in {"timeout_at", "wait_timeout"} /\ tdl[t] # NoDeadline
C31_AtSleep(p) == p \in {"ta_sleep", "ta_timer"}
C31_Step ==
    \A t \in Tasks :
        C31_Timed(t) =>
            /\ (pc[t] = "ta_op" /\ lstate[t] = "Notified" /\ pc'[t] # pc[t]) =>
                  /\ tres'[t] = "Ok"
                  /\ pc'[t] = "done"
            /\ (tres'[t] = "Elapsed" /\ tres[t] # "Elapsed") => C31_AtSleep(pc[t])
            /\ (C31_AtSleep(pc'[t]) /\ ~C31_AtSleep(pc[t])) =>
                  /\ pc[t] = "ta_op"
                  /\ lstate[t] # "Notified"
C31_State ==
    \A t \in Tasks :
        (C31_Timed(t) /\ C31_AtSleep(pc[t])) => lstate[t] \in {"Task", "Notified"}
C31_PrefersOp == []C31_State /\ [][C31_Step]_vars

\* A timeout_at whose deadline was not ahead when it was called has returned
\* Ok: the poll that found its operation ready ran at or after the deadline.
C31_Witness ==
    \E t \in Tasks :
        /\ op[t] = "timeout_at" /\ pc[t] = "done"
        /\ tdl[t] = 0
        /\ tres[t] = "Ok"
        /\ now > 0

(* C32: timeout(Some(d), op) whose d + now overflows the time type is
   timeout(None, op): it hands no deadline to timeout_at, arms no timer and
   never returns Err(Elapsed); when d + now does not overflow, the deadline
   it hands to timeout_at is now + d. *)
C32_Overflows(dur) == dur # NoDuration /\ dur > TimeValue_MAX - now
C32_Called(t) == timeoutCall'.task = t
C32_Step ==
    \A t \in Tasks :
        C32_Called(t) =>
            /\ op'[t] = "timeout_at" /\ pc'[t] = "ta_op"
            /\ TIMER_RUNTIME' = TIMER_RUNTIME
            /\ IF timeoutCall'.duration = NoDuration
                   \/ C32_Overflows(timeoutCall'.duration)
               THEN /\ tdl'[t] = NoDeadline
                    /\ sleepSt'[t] = "none"
                    /\ tkey'[t] = NoKey
               ELSE /\ tdl'[t] = now + timeoutCall'.duration
                    /\ sleepSt'[t] = "unstarted"
C32_State ==
    \A t \in Tasks :
        (op[t] = "timeout_at" /\ tdl[t] = NoDeadline) =>
            /\ tres[t] # "Elapsed"
            /\ sleepSt[t] = "none"
            /\ tkey[t] = NoKey
            /\ pc[t] \notin {"ta_sleep", "ta_timer"}
C32_Overflow == []C32_State /\ [][C32_Step]_vars

\* timeout has just been called with a duration that overflows, after one
\* with the largest duration that does not.
C32_Witness ==
    \E t, u \in Tasks :
        /\ timeoutCall.task = t
        /\ timeoutCall.duration = TimeValue_MAX
        /\ now >= 1
        /\ tdl[t] = NoDeadline
        /\ u # t /\ tdl[u] = TimeValue_MAX

(* C33 as specified: no missed wakeup in wait_timeout_until.  When the
   condition has been made true and notify_all is then called, while the call
   is in progress and before its deadline, the call returns without the clock
   having to reach the deadline, wherever the notify falls between the call's
   check of the condition and the registration of its listener.  (The wheel
   has keys left for the adds that may follow, and the deadline is a time
   the clock can still reach: where the call stays suspended, it is the
   timer it waits for.) *)
C33_InProgress(t) ==
    op[t] = "wait_timeout_until" /\ pc[t] \notin {"idle", "done"}
C33_Notified(t) ==
    /\ C33_InProgress(t)
    /\ cond
    /\ notifyRet = "unit"
    /\ now < deadline[t]
    /\ deadline[t] <= MaxTime
    /\ TIMER_RUNTIME.key + NumTasks <= MaxKey
C33_NoMissedWakeup ==
    \A t \in Tasks :
        C33_Notified(t) ~> (pc[t] = "done" \/ ~cond \/ now >= deadline[t])

(* C34: no waker registered for an interrupt is lost.  register_irq_waker
   and irq_handler's removal are critical sections of POLL_IRQ, so a waker
   in the set of n stays there until a firing of n takes the whole set, and
   a waker a firing has taken is called by it; a waker registered after the
   removal is in a new set of n, whose handler is installed, for the next
   firing.  A firing of n leaves the sets of all other numbers as they are. *)
C34_Taken(c, n) == irqHandler[c].pc = "idle" /\ irqHandler'[c].pc = "wake"
                       /\ irqHandler'[c].irq = n
C34_Fired(n) == n \in DOMAIN POLL_IRQ /\ n \notin DOMAIN POLL_IRQ'
C34_Step ==
    /\ \A n \in DOMAIN POLL_IRQ : \A w \in POLL_IRQ[n] :
          \/ n \in DOMAIN POLL_IRQ' /\ w \in POLL_IRQ'[n]
          \/ \E c \in Cpus : C34_Taken(c, n) /\ w \in irqHandler'[c].s
    /\ \A c \in Cpus : irqHandler[c].pc = "wake" =>
          \/ irqHandler'[c] = irqHandler[c]
          \/ \A w \in irqHandler[c].s : woken'[w]
    /\ \A n \in Irqs : C34_Fired(n) =>
          /\ \E c \in Cpus : C34_Taken(c, n)
          /\ \A m \in DOMAIN POLL_IRQ \ {n} :
                m \in DOMAIN POLL_IRQ' /\ POLL_IRQ'[m] = POLL_IRQ[m]
          /\ DOMAIN POLL_IRQ' \subseteq DOMAIN POLL_IRQ
C34_State ==
    \A n \in DOMAIN POLL_IRQ : POLL_IRQ[n] # {} /\ irqRegistered[n] > 0
C34_NoLostWaker == []C34_State /\ [][C34_Step]_vars

\* A waker was registered for n after a firing of n had taken the set of n
\* and before that firing called its wakers; another number has its set.
C34_Witness ==
    \E c \in Cpus, n, m \in Irqs :
        /\ irqHandler[c].pc = "wake" /\ irqHandler[c].irq = n
        /\ irqHandler[c].s # {}
        /\ n \in DOMAIN POLL_IRQ
        /\ POLL_IRQ[n] \cap irqHandler[c].s = {}
        /\ m # n /\ m \in DOMAIN POLL_IRQ /\ POLL_IRQ[m] = Tasks

==============================================================================
